---- MODULE Spec2Model ----
(***************************************************************************)
(* Verification model of deep-openreview-research-ja.                      *)
(*                                                                         *)
(*   - fetch_all_papers.py: bulk listing with retry/backoff, per-record    *)
(*     detail fetch, checkpointing every 100 records and resume.           *)
(*   - app/paper_review_workflow: ScoringWeights validation, the staged    *)
(*     evaluation pipeline (search, heuristic evaluate, rank, unified LLM  *)
(*     scoring, re-rank, report).                                          *)
(*                                                                         *)
(* Optional values (Python None) are sequences of length at most one:      *)
(* None is <<>> and a present value x is <<x>>.                            *)
(***************************************************************************)
EXTENDS Integers, Sequences, FiniteSets, TLC

----------------------------------------------------------------------------
(* Bounds of the model *)

\* number of submissions the listing returns for the venue/year
NumSubmissions == 203
\* number of invocations of fetch_all_papers that are explored
MaxRuns == 3
\* longest list of LLM-scored papers handed to the re-rank stage
MaxRanked == 22
\* writes to the cache directory that are explored
MaxWrites == 2
\* hours between two calls of the cache, and the last hour explored
TickHours == 12
MaxClock == 24
\* calls of _generate_synonyms made on one EvaluatePapersNode
MaxSynonymCalls == 3
\* research interests given to one relevance computation
MaxInterests == 3
\* checkpoints (of 100, 200, ... records) a fetch left in the data directory
MaxCheckpoints == 10
\* every FlakyEvery-th submission (1, 1+FlakyEvery, ...) is one whose
\* detail fetch may raise
FlakyEvery == 101

----------------------------------------------------------------------------
(* Program constants *)

max_retries == 5
initial_retry_delay == 10
CHECKPOINT_EVERY == 100
\* time.sleep(1.2), in tenths of a second
RATE_LIMIT_DELAY == 12
ttl_hours == 24

----------------------------------------------------------------------------
(* Optional values *)

None == <<>>
Some(x) == <<x>>
IsNone(o) == o = <<>>
Val(o) == o[1]

----------------------------------------------------------------------------
(* fetch_all_papers.py *)

VARIABLES
    \* ---- disk (storage/papers_data/{venue}_{year}) ----
    papers_file,       \* all_papers.json: None or Some(record list)
    temp_files,        \* all_papers_temp_<n>.json: n -> [ok, data]
    \* ---- locals of the running fetch_all_papers call ----
    pc,                \* position of the call ("idle" when no call runs)
    force,             \* the force argument of the call
    attempt,           \* loop variable of the listing retry loop
    retry_delay,       \* seconds to wait before the next listing attempt
    submissions,       \* None or Some(list of submission ids)
    papers,            \* accumulated record list
    processed_ids,     \* identifiers seeded from the checkpoint
    resume_from,       \* number of records loaded from the checkpoint
    i,                 \* enumerate(submissions, 1) index
    \* ---- observable effects of the call ----
    result,            \* how the last call ended
    sleeps,            \* time.sleep(retry_delay) calls of this call, in order
    listing_calls,     \* client.get_all_notes calls of this call
    fetched,           \* ids passed to fetch_paper_reviews_dynamic, in order
    loop_calls,        \* the blocking calls the record loop of this call
                       \* made, in order: time.sleep and the detail fetch
    fetch_failed,      \* ids whose detail fetch raised in this call
    written,           \* artifacts written by this call
    runs,              \* number of calls started so far
    lost_from          \* Some(number of records whose iteration had completed)
                       \* when the previous call was interrupted in the record
                       \* loop, else None

fetch_vars == << papers_file, temp_files, pc, force, attempt, retry_delay,
                 submissions, papers, processed_ids, resume_from, i, result,
                 sleeps, listing_calls, fetched, loop_calls, fetch_failed,
                 written, runs, lost_from >>

VARIABLES
    \* ---- ScoringWeights(...) construction (config.py) ----
    sw_args,           \* the constructor arguments
    sw_outcome,        \* "none", "constructed" or "ValueError"
    scoring_weights    \* None, or Some(the constructed ScoringWeights)

weights_vars == << sw_args, sw_outcome, scoring_weights >>

VARIABLES
    node,             \* graph node to run next; "idle" before graph.invoke,
                      \* "END" after generate_report, "crashed" when an
                      \* exception left a node
    weights,          \* ScoringWeights held by the agent's nodes
    state,            \* PaperReviewAgentState
    synonyms_cache,   \* EvaluatePapersNode._synonyms_cache (None: empty)
    filtered_papers,  \* RankPapersNode.__call__: local filtered_papers
    sorted_papers,    \* RankPapersNode.__call__: local ranked_papers at
                      \* the point where the top-k selection is made
    stage_trace,      \* observation: the nodes that have returned their
                      \* update, in the order they returned
    rank_steps,       \* observation: the steps RankPapersNode.__call__
                      \* took, in the order it took them
    llm_responses,    \* observation: what happened to the LLM response of
                      \* each ranked paper in the unified stage
    degraded          \* observation: ids of the papers whose metadata
                      \* fetch or unified LLM call failed

pipeline_vars == << node, weights, state, synonyms_cache, filtered_papers,
                    sorted_papers, stage_trace, rank_steps, llm_responses,
                    degraded >>

VARIABLES
    \* ---- ReRankPapersNode called on its own ----
    rr_input,         \* state.llm_evaluated_papers of the call
    rr_update         \* None, or Some(the update the node returned)

rerank_vars == << rr_input, rr_update >>

VARIABLES
    \* ---- CacheManager (tools/cache_manager.py) and search_papers ----
    cache_files,      \* the files of cache_dir: for each file name None, or
                      \* Some([content, mtime, payload]); payload is the
                      \* data the file was written from (observation)
    cache_now,        \* datetime.now(), in hours
    cache_writes,     \* number of writes made so far
    cache_result      \* what the last call returned or raised

cache_vars == << cache_files, cache_now, cache_writes, cache_result >>

VARIABLES
    \* ---- EvaluatePapersNode._generate_synonyms called repeatedly ----
    sy_cache,         \* self._synonyms_cache: cache key -> synonyms dict
    sy_client,        \* whether ChatOpenAI(...) can be constructed in this
                      \* process: "unknown" until the first attempt
    sy_history        \* observation: for every call made, its argument,
                      \* its result and the number of llm.invoke it issued

syn_vars == << sy_cache, sy_client, sy_history >>

\* A call of EvaluatePapersNode._calculate_relevance_score on its own
VARIABLES
    rel_call         \* None, or Some(the arguments of the call, the synonyms
                     \* _generate_synonyms handed to it, and the score)

rel_vars == << rel_call >>

\* One merge of a node's returned dict into the graph state on its own
VARIABLES
    mg_call          \* None, or Some(the state before, the update and the
                     \* state after)

merge_vars == << mg_call >>

VARIABLES
    \* ---- create_icml_files_from_checkpoint.py ----
    cp_call          \* None, or Some(the checkpoints the script found, its
                     \* exit status and the files it wrote)

ckpt_vars == << cp_call >>

vars == << fetch_vars, weights_vars, pipeline_vars, rerank_vars,
           cache_vars, syn_vars, rel_vars, merge_vars, ckpt_vars >>

\* client.get_all_notes(invitation=...) on success: the submission ids
SubmissionList == [k \in 1..NumSubmissions |-> k]

FlakyIds == { s \in 1..NumSubmissions : s % FlakyEvery = 1 }

\* the except branch of fetch_paper_reviews_dynamic
EmptyReviewBundle ==
    [ reviews |-> <<>>, rating_avg |-> None, confidence_avg |-> None,
      decision |-> "N/A", meta_review |-> "", author_remarks |-> "",
      decision_comment |-> "" ]

\* a bundle as the try branch returns it for a reviewed submission
ReviewedBundle ==
    [ reviews |-> << "review" >>, rating_avg |-> Some(60),
      confidence_avg |-> Some(40), decision |-> "Accept (poster)",
      meta_review |-> "meta", author_remarks |-> "",
      decision_comment |-> "comment" ]

FetchPaperReviewsDynamicMutant(raised) ==
    IF raised THEN [ EmptyReviewBundle EXCEPT !.decision = "" ]
    ELSE ReviewedBundle

\* fetch_paper_reviews_dynamic(client, paper_id, detected_fields):
\* raised = an exception occurred inside its try block
FetchPaperReviewsDynamic(raised) ==
    IF raised THEN EmptyReviewBundle ELSE ReviewedBundle

\* The detail fetch issued before the delay
LoopCallsMutant(id) ==
    << [ call |-> "fetch", arg |-> id ],
       [ call |-> "sleep", arg |-> RATE_LIMIT_DELAY ] >>

\* lines 505-510 of the record loop: time.sleep(1.2), then
\* fetch_paper_reviews_dynamic(client, submission.id, detected_fields)
LoopCalls(id) ==
    << [ call |-> "sleep", arg |-> RATE_LIMIT_DELAY ],
       [ call |-> "fetch", arg |-> id ] >>

\* paper_info of one loop iteration
PaperInfo(id, review_data) ==
    [ id |-> id,
      reviews |-> review_data.reviews,
      rating_avg |-> review_data.rating_avg,
      confidence_avg |-> review_data.confidence_avg,
      decision |-> review_data.decision,
      meta_review |-> review_data.meta_review,
      author_remarks |-> review_data.author_remarks,
      decision_comment |-> review_data.decision_comment ]

NextRetryDelayMutant(d) == d + initial_retry_delay

\* retry_delay *= 2
NextRetryDelay(d) == d * 2

ProcessedIdsOfMutant(ps) == {}

\* processed_ids = {p["id"] for p in papers}
ProcessedIdsOf(ps) == { ps[k].id : k \in 1..Len(ps) }

\* sorted(glob("all_papers_temp_*.json"), key=count)[-1]
LatestTempFile(files) ==
    CHOOSE n \in DOMAIN files : \A m \in DOMAIN files : m <= n

NoTempFiles == [ n \in {} |-> [ ok |-> TRUE, data |-> <<>> ] ]

\* The checkpoint written without the record appended last
WriteTempFileMutant(files, n, ok, data) ==
    [ m \in (DOMAIN files) \cup {n} |->
        IF m = n
        THEN [ ok |-> ok,
               data |-> IF ok THEN SubSeq(data, 1, Len(data) - 1) ELSE <<>> ]
        ELSE files[m] ]

\* temp_file.write_text(json.dumps(papers)): ok = FALSE is the file a
\* process-level interruption leaves behind in the middle of the write
WriteTempFile(files, n, ok, data) ==
    [ m \in (DOMAIN files) \cup {n} |->
        IF m = n THEN [ ok |-> ok, data |-> IF ok THEN data ELSE <<>> ]
        ELSE files[m] ]

other_than_fetch == << weights_vars, pipeline_vars, rerank_vars,
                       cache_vars, syn_vars, rel_vars, merge_vars,
                       ckpt_vars >>
other_than_weights == << fetch_vars, pipeline_vars, rerank_vars,
                         cache_vars, syn_vars, rel_vars, merge_vars,
                         ckpt_vars >>
other_than_pipeline == << fetch_vars, weights_vars, rerank_vars,
                          cache_vars, syn_vars, rel_vars, merge_vars,
                          ckpt_vars >>
other_than_rerank == << fetch_vars, weights_vars, pipeline_vars,
                        cache_vars, syn_vars, rel_vars, merge_vars,
                        ckpt_vars >>
other_than_cache == << fetch_vars, weights_vars, pipeline_vars,
                       rerank_vars, syn_vars, rel_vars, merge_vars,
                       ckpt_vars >>
other_than_syn == << fetch_vars, weights_vars, pipeline_vars, rerank_vars,
                     cache_vars, rel_vars, merge_vars, ckpt_vars >>
other_than_rel == << fetch_vars, weights_vars, pipeline_vars, rerank_vars,
                     cache_vars, syn_vars, merge_vars, ckpt_vars >>
other_than_merge == << fetch_vars, weights_vars, pipeline_vars,
                       rerank_vars, cache_vars, syn_vars, rel_vars,
                       ckpt_vars >>
other_than_ckpt == << fetch_vars, weights_vars, pipeline_vars, rerank_vars,
                      cache_vars, syn_vars, rel_vars, merge_vars >>

FetchInit ==
    /\ papers_file = None
    /\ temp_files = NoTempFiles
    /\ pc = "idle"
    /\ force = FALSE
    /\ attempt = 0
    /\ retry_delay = initial_retry_delay
    /\ submissions = None
    /\ papers = <<>>
    /\ processed_ids = {}
    /\ resume_from = 0
    /\ i = 1
    /\ result = "none"
    /\ sleeps = <<>>
    /\ listing_calls = 0
    /\ fetched = <<>>
    /\ loop_calls = <<>>
    /\ fetch_failed = {}
    /\ written = {}
    /\ runs = 0
    /\ lost_from = None

\* the locals of a call that has not started its work; also what is left of
\* them once the process was interrupted
ResetLocals ==
    /\ attempt' = 0
    /\ retry_delay' = initial_retry_delay
    /\ submissions' = None
    /\ papers' = <<>>
    /\ processed_ids' = {}
    /\ resume_from' = 0
    /\ i' = 1
    /\ sleeps' = <<>>
    /\ listing_calls' = 0
    /\ fetched' = <<>>
    /\ loop_calls' = <<>>
    /\ fetch_failed' = {}
    /\ written' = {}

\* python fetch_all_papers.py [--force]: a new call starts
Invoke(f) ==
    /\ UNCHANGED other_than_fetch
    /\ pc = "idle"
    /\ runs < MaxRuns
    /\ runs' = runs + 1
    /\ force' = f
    /\ pc' = "check_cache"
    /\ result' = "running"
    /\ ResetLocals
    /\ UNCHANGED << papers_file, temp_files, lost_from >>

\* lines 351-368: an existing final artifact ends the call unless forced
CheckCache ==
    /\ UNCHANGED other_than_fetch
    /\ UNCHANGED loop_calls
    /\ pc = "check_cache"
    /\ IF ~IsNone(papers_file) /\ ~force
       THEN /\ pc' = "idle"
            /\ result' = "cached"
            /\ lost_from' = None
       ELSE /\ pc' = "listing"
            /\ UNCHANGED << result, lost_from >>
    /\ UNCHANGED << papers_file, temp_files, force, attempt, retry_delay,
                    submissions, papers, processed_ids, resume_from, i,
                    sleeps, listing_calls, fetched, fetch_failed, written,
                    runs >>

\* lines 398-425: one iteration of the listing retry loop
FetchSubmissions(ok) ==
    /\ UNCHANGED other_than_fetch
    /\ UNCHANGED loop_calls
    /\ pc = "listing"
    /\ attempt < max_retries
    /\ listing_calls' = listing_calls + 1
    /\ IF ok
       THEN /\ submissions' = Some(SubmissionList)
            /\ pc' = "resume"
            /\ UNCHANGED << attempt, retry_delay, sleeps, result, lost_from >>
       ELSE IF attempt < max_retries - 1
       THEN /\ sleeps' = Append(sleeps, retry_delay)
            /\ retry_delay' = NextRetryDelay(retry_delay)
            /\ attempt' = attempt + 1
            /\ UNCHANGED << submissions, pc, result, lost_from >>
       ELSE /\ pc' = "idle"
            /\ result' = "error"
            /\ lost_from' = None
            /\ UNCHANGED << submissions, attempt, retry_delay, sleeps >>
    /\ UNCHANGED << papers_file, temp_files, force, papers, processed_ids,
                    resume_from, i, fetched, fetch_failed, written, runs >>

\* the checkpoint is loaded whatever the force flag says
LoadCheckpointMutant ==
    /\ UNCHANGED other_than_fetch
    /\ UNCHANGED loop_calls
    /\ pc = "resume"
    /\ pc' = "loop"
    /\ IF DOMAIN temp_files # {}
       THEN LET latest == temp_files[LatestTempFile(temp_files)] IN
            IF latest.ok
            THEN /\ papers' = latest.data
                 /\ processed_ids' = ProcessedIdsOf(latest.data)
                 /\ resume_from' = Len(latest.data)
                 /\ UNCHANGED temp_files
            ELSE /\ papers' = <<>>
                 /\ processed_ids' = {}
                 /\ resume_from' = 0
                 /\ UNCHANGED temp_files
       ELSE IF force /\ DOMAIN temp_files # {}
       THEN /\ temp_files' = NoTempFiles
            /\ UNCHANGED << papers, processed_ids, resume_from >>
       ELSE UNCHANGED << temp_files, papers, processed_ids, resume_from >>
    /\ UNCHANGED << papers_file, force, attempt, retry_delay, submissions, i,
                    result, sleeps, listing_calls, fetched, fetch_failed,
                    written, runs, lost_from >>

\* lines 427-460: load the latest checkpoint, or clean up in force mode
LoadCheckpoint ==
    /\ UNCHANGED other_than_fetch
    /\ UNCHANGED loop_calls
    /\ pc = "resume"
    /\ pc' = "loop"
    /\ IF DOMAIN temp_files # {} /\ ~force
       THEN LET latest == temp_files[LatestTempFile(temp_files)] IN
            IF latest.ok
            THEN /\ papers' = latest.data
                 /\ processed_ids' = ProcessedIdsOf(latest.data)
                 /\ resume_from' = Len(latest.data)
                 /\ UNCHANGED temp_files
            ELSE /\ papers' = <<>>
                 /\ processed_ids' = {}
                 /\ resume_from' = 0
                 /\ UNCHANGED temp_files
       ELSE IF force /\ DOMAIN temp_files # {}
       THEN /\ temp_files' = NoTempFiles
            /\ UNCHANGED << papers, processed_ids, resume_from >>
       ELSE UNCHANGED << temp_files, papers, processed_ids, resume_from >>
    /\ UNCHANGED << papers_file, force, attempt, retry_delay, submissions, i,
                    result, sleeps, listing_calls, fetched, fetch_failed,
                    written, runs, lost_from >>

\* lines 473-544: one iteration of the record loop.
\* raised: the detail fetch raised
ProcessSubmission(raised) ==
    /\ UNCHANGED other_than_fetch
    /\ pc = "loop"
    /\ i <= Len(Val(submissions))
    /\ LET id == Val(submissions)[i] IN
       IF id \in processed_ids
       THEN /\ ~raised
            /\ UNCHANGED << papers, fetched, loop_calls, fetch_failed,
                            temp_files, written >>
       ELSE LET review_data == FetchPaperReviewsDynamic(raised)
                new_papers == Append(papers, PaperInfo(id, review_data))
            IN
            /\ raised => id \in FlakyIds
            /\ fetched' = Append(fetched, id)
            /\ loop_calls' = loop_calls \o LoopCalls(id)
            /\ fetch_failed' = IF raised THEN fetch_failed \cup {id}
                               ELSE fetch_failed
            /\ papers' = new_papers
            /\ IF Len(new_papers) % CHECKPOINT_EVERY = 0
               THEN /\ temp_files' = WriteTempFile(temp_files,
                                        Len(new_papers), TRUE, new_papers)
                    /\ written' = written \cup { Len(new_papers) }
               ELSE UNCHANGED << temp_files, written >>
    /\ i' = i + 1
    /\ lost_from' = None
    /\ UNCHANGED << papers_file, pc, result, force, attempt, retry_delay,
                    submissions, processed_ids, resume_from, sleeps,
                    listing_calls, runs >>

\* the same iteration when the process is interrupted while write_text is
\* writing the checkpoint: the file is left truncated (ok = FALSE)
InterruptedCheckpointWrite ==
    /\ UNCHANGED other_than_fetch
    /\ pc = "loop"
    /\ i <= Len(Val(submissions))
    /\ Val(submissions)[i] \notin processed_ids
    /\ (Len(papers) + 1) % CHECKPOINT_EVERY = 0
    /\ temp_files' = WriteTempFile(temp_files, Len(papers) + 1, FALSE, <<>>)
    /\ pc' = "idle"
    /\ result' = "interrupted"
    /\ lost_from' = Some(Len(papers))
    /\ ResetLocals
    /\ UNCHANGED << papers_file, force, runs >>

\* the for loop over the submissions is exhausted
LoopDone ==
    /\ UNCHANGED other_than_fetch
    /\ UNCHANGED loop_calls
    /\ pc = "loop"
    /\ i > Len(Val(submissions))
    /\ pc' = "final"
    /\ UNCHANGED << papers_file, temp_files, force, attempt, retry_delay,
                    submissions, papers, processed_ids, resume_from, i,
                    result, sleeps, listing_calls, fetched, fetch_failed,
                    written, runs, lost_from >>

\* lines 546-574: write all_papers.json (and metadata.json)
SaveFinal ==
    /\ UNCHANGED other_than_fetch
    /\ UNCHANGED loop_calls
    /\ pc = "final"
    /\ papers_file' = Some(papers)
    /\ written' = written \cup { 0 }
    /\ pc' = "cleanup"
    /\ UNCHANGED << temp_files, force, attempt, retry_delay, submissions,
                    papers, processed_ids, resume_from, i, result, sleeps,
                    listing_calls, fetched, fetch_failed, runs, lost_from >>

\* The call returning without the deletion loop
CleanupCheckpointsMutant ==
    /\ UNCHANGED other_than_fetch
    /\ UNCHANGED loop_calls
    /\ pc = "cleanup"
    /\ pc' = "idle"
    /\ result' = "complete"
    /\ lost_from' = None
    /\ UNCHANGED << papers_file, temp_files, force, attempt, retry_delay,
                    submissions, papers, processed_ids, resume_from, i,
                    sleeps, listing_calls, fetched, fetch_failed, written,
                    runs >>

\* lines 576-579: delete every checkpoint, then the call returns
CleanupCheckpoints ==
    /\ UNCHANGED other_than_fetch
    /\ UNCHANGED loop_calls
    /\ pc = "cleanup"
    /\ temp_files' = NoTempFiles
    /\ pc' = "idle"
    /\ result' = "complete"
    /\ lost_from' = None
    /\ UNCHANGED << papers_file, force, attempt, retry_delay, submissions,
                    papers, processed_ids, resume_from, i, sleeps,
                    listing_calls, fetched, fetch_failed, written, runs >>

\* process-level interruption (KeyboardInterrupt, kill) between two steps
Interrupt ==
    /\ UNCHANGED other_than_fetch
    /\ pc \in { "check_cache", "listing", "resume", "loop", "final",
                "cleanup" }
    /\ pc' = "idle"
    /\ result' = "interrupted"
    /\ lost_from' = IF pc = "loop" THEN Some(Len(papers)) ELSE None
    /\ ResetLocals
    /\ UNCHANGED << papers_file, temp_files, force, runs >>

FetchNext ==
    \/ \E f \in BOOLEAN : Invoke(f)
    \/ CheckCache
    \/ \E ok \in BOOLEAN : FetchSubmissions(ok)
    \/ LoadCheckpoint
    \/ \E raised \in BOOLEAN : ProcessSubmission(raised)
    \/ InterruptedCheckpointWrite
    \/ LoopDone
    \/ SaveFinal
    \/ CleanupCheckpoints
    \/ Interrupt


----------------------------------------------------------------------------
(* Properties of fetch_all_papers *)

Range(seq) == { seq[k] : k \in 1..Len(seq) }
IdsOf(ps) == { ps[k].id : k \in 1..Len(ps) }

\* the call returned normally after the record loop
Completed == pc = "idle" /\ result = "complete"

\* greatest record count among the checkpoints that were written completely
BestPersisted(files) ==
    LET good == { n \in DOMAIN files : files[n].ok } IN
    IF good = {} THEN 0 ELSE CHOOSE n \in good : \A m \in good : m <= n

\* C1: a call without the force flag that loaded a checkpoint of K records,
\* 0 < K < N, and ran to completion issued one detail fetch for each of the
\* N-K identifiers that are not in the checkpoint and none for a
\* checkpointed identifier, and the final artifact holds exactly N records
\* with pairwise distinct identifiers.
C1_ResumeCorrectness ==
    ( Completed /\ ~force /\ resume_from > 0
      /\ resume_from < Len(Val(submissions)) ) =>
        LET N == Len(Val(submissions))
            checkpointed == { papers[k].id : k \in 1..resume_from }
            final == Val(papers_file)
        IN  /\ Len(fetched) = N - resume_from
            /\ Cardinality(Range(fetched)) = Len(fetched)
            /\ Range(fetched) = Range(Val(submissions)) \ checkpointed
            /\ Range(fetched) \cap checkpointed = {}
            /\ Len(final) = N
            /\ Cardinality(IdsOf(final)) = N

C1_Witness ==
    /\ Completed /\ ~force
    /\ resume_from = 2 * CHECKPOINT_EVERY
    /\ Len(fetched) = NumSubmissions - 2 * CHECKPOINT_EVERY

\* C2: after an interruption in the record loop, the next call without the
\* force flag starts its loop from the records of the most advanced
\* completely written checkpoint, and fewer than 100 records whose
\* processing had completed are lost.
C2_ResumeLosesLessThanOneInterval ==
    ( pc = "loop" /\ i = 1 /\ ~force /\ ~IsNone(lost_from) ) =>
        /\ resume_from = BestPersisted(temp_files)
        /\ Val(lost_from) - resume_from < CHECKPOINT_EVERY

\* C3: the listing is attempted at most 5 times, failed attempt k < 5 is
\* followed by a wait of 10*2^(k-1) seconds, the first success ends the
\* retries, and after 5 failures the call raises without a further wait,
\* without any detail fetch and without writing an artifact.
C3_ListingRetry ==
    /\ listing_calls <= max_retries
    /\ Len(sleeps) <= max_retries - 1
    /\ \A k \in 1..Len(sleeps) : sleeps[k] = 10 * 2^(k-1)
    /\ pc = "listing" => listing_calls = Len(sleeps)
    /\ ~IsNone(submissions) => listing_calls = Len(sleeps) + 1
    /\ result = "error" =>
          /\ listing_calls = 5
          /\ sleeps = << 10, 20, 40, 80 >>
          /\ IsNone(submissions)
          /\ fetched = <<>> /\ papers = <<>> /\ written = {}

C3_Witness ==
    /\ result = "error" /\ pc = "idle"
    /\ listing_calls = 5 /\ Len(sleeps) = 4

\* C4: a detail fetch that raises does not abort the call: the record of
\* that submission is emitted with the empty ReviewBundle and the loop goes
\* on with the next submission.
C4_FetchFailureDegrades ==
    /\ fetch_failed # {} => result \in { "running", "complete" }
    /\ Len(papers) = resume_from + Len(fetched)
    /\ \A k \in 1..Len(fetched) :
          fetched[k] \in fetch_failed =>
              /\ papers[resume_from + k]
                     = PaperInfo(fetched[k], EmptyReviewBundle)
              /\ ( pc = "loop" => i > k )

C4_Witness ==
    /\ Completed
    /\ 1 \in fetch_failed
    /\ Len(fetched) = NumSubmissions
    /\ Val(papers_file)[1] = PaperInfo(1, EmptyReviewBundle)
    /\ Val(papers_file)[2] = PaperInfo(2, ReviewedBundle)


----------------------------------------------------------------------------
(* config.py: ScoringWeights *)

\* Weights are counted in thousandths (400 is 0.4).  The arguments explored
\* are multiples of 0.004, so no sum lies exactly 0.01 away from 1.0, the
\* one place where binary floating point and decimal arithmetic disagree.
W == 1000
WeightGrid == { -200, 0, 288, 300, 304, 308, 400, 600, 700, 1000, 1200 }

Abs(x) == IF x < 0 THEN -x ELSE x

\* the dataclass defaults
DefaultScoringWeights ==
    [ openreview_weight |-> 400, llm_weight |-> 600,
      relevance_weight |-> 400, novelty_weight |-> 300,
      impact_weight |-> 300 ]

PostInitMutant(w) ==
    IF Abs((w.openreview_weight + w.llm_weight) - W) > 10
    THEN "ValueError"
    ELSE "constructed"

\* ScoringWeights.__post_init__: the two sum checks, each raising ValueError
PostInit(w) ==
    IF Abs((w.openreview_weight + w.llm_weight) - W) > 10
    THEN "ValueError"
    ELSE IF Abs((w.relevance_weight + w.novelty_weight + w.impact_weight)
                - W) > 10
    THEN "ValueError"
    ELSE "constructed"

WeightsInit ==
    /\ sw_args = DefaultScoringWeights
    /\ sw_outcome = "none"
    /\ scoring_weights = None

\* ScoringWeights(openreview_weight=a, llm_weight=b, relevance_weight=c,
\*                novelty_weight=d, impact_weight=e)
ConstructScoringWeights(a, b, c, d, e) ==
    LET w == [ openreview_weight |-> a, llm_weight |-> b,
               relevance_weight |-> c, novelty_weight |-> d,
               impact_weight |-> e ]
    IN  /\ sw_outcome = "none"
        /\ sw_args' = w
        /\ sw_outcome' = PostInit(w)
        /\ scoring_weights' = IF PostInit(w) = "constructed" THEN Some(w)
                              ELSE None
        /\ UNCHANGED other_than_weights

WeightsNext ==
    /\ sw_outcome = "none"
    /\ \E a, b, c, d, e \in WeightGrid :
          ConstructScoringWeights(a, b, c, d, e)

\* C8: constructing ScoringWeights succeeds if and only if
\* openreview_weight+llm_weight and relevance_weight+novelty_weight+
\* impact_weight are both within 0.01 of 1.0; otherwise it fails with an
\* error and there is no ScoringWeights value.
C8_WeightsValidated ==
    sw_outcome # "none" =>
        LET integration == sw_args.openreview_weight + sw_args.llm_weight
            openreview == sw_args.relevance_weight + sw_args.novelty_weight
                          + sw_args.impact_weight
            within(x) == 990 <= x /\ x <= 1010
        IN  /\ (sw_outcome = "constructed")
                <=> (within(integration) /\ within(openreview))
            /\ sw_outcome = "constructed" => scoring_weights = Some(sw_args)
            /\ sw_outcome # "constructed" =>
                  /\ sw_outcome = "ValueError"
                  /\ IsNone(scoring_weights)

C8_Witness ==
    /\ sw_outcome = "ValueError"
    /\ sw_args.openreview_weight + sw_args.llm_weight = 1000
    /\ sw_args.relevance_weight + sw_args.novelty_weight
         + sw_args.impact_weight = 1012

----------------------------------------------------------------------------
(* app/paper_review_workflow: the evaluation pipeline *)

\* Bound: the search returns at most MaxPapers papers.
MaxPapers == 2

\* Scores are counted in 1/10000 (5000 is 0.5, MAX_SCORE is 1.0); ratings
\* and confidences in tenths (75 is 7.5).
MIN_SCORE == 0
MAX_SCORE == 10000
S == MAX_SCORE
NEURIPS_RATING_SCALE == 10
RELEVANCE_KEYWORD_WEIGHT == 7000
RELEVANCE_TEXT_WEIGHT == 2000
RELEVANCE_COVERAGE_WEIGHT == 1000
MAX_DISPLAY_PAPERS == 20
DEFAULT_TOP_N_PAPERS == 20
min_keywords == 3

Min2(a, b) == IF a < b THEN a ELSE b

\* min(max(x, MIN_SCORE), MAX_SCORE)
Clamp(x) == IF x < MIN_SCORE THEN MIN_SCORE
            ELSE IF x > MAX_SCORE THEN MAX_SCORE ELSE x

\* Python "o or d" on an optional number: None and 0.0 are both falsy
OrElse(o, d) == IF IsNone(o) \/ Val(o) = 0 THEN d ELSE Val(o)

\* str.lower().strip() on the vocabulary of the model
Lower(x) ==
    CASE x = "LLM" -> "llm"
      [] x = "Graph" -> "graph"
      [] OTHER -> x

\* A review, as seen by _estimate_novelty_from_reviews: how many of the
\* positive novelty keywords occur in its strengths, how many occur in the
\* review but not in its strengths, and likewise for the negative keywords
\* and its weaknesses.
NoNoveltyWords ==
    [ pos_strengths |-> 0, pos_other |-> 0,
      neg_weaknesses |-> 0, neg_other |-> 0 ]
PraisedAsNovel ==
    [ pos_strengths |-> 1, pos_other |-> 0,
      neg_weaknesses |-> 0, neg_other |-> 1 ]

\* The papers the search tool can return.  keywords is paper.keywords, text
\* the set of vocabulary terms that occur in (title + " " + abstract).lower().
\*   1: found through the API, no review data attached
\*   2: from all_papers.json, highly rated oral
\*   3: from all_papers.json, review data but no decision field
\*   4: from all_papers.json, rating outside the 1-10 scale, rejected
PaperPool ==
    << [ id |-> 1, keywords |-> {"LLM"}, text |-> {"llm"},
         reviews |-> <<>>, rating_avg |-> None, confidence_avg |-> None,
         decision |-> None ],
       [ id |-> 2, keywords |-> {"LLM", "Graph"}, text |-> {"llm", "gnn"},
         reviews |-> << NoNoveltyWords >>, rating_avg |-> Some(90),
         confidence_avg |-> Some(45), decision |-> Some("Accept (oral)") ],
       [ id |-> 3, keywords |-> {"diffusion"}, text |-> {},
         reviews |-> << PraisedAsNovel >>, rating_avg |-> Some(60),
         confidence_avg |-> None, decision |-> None ],
       [ id |-> 4, keywords |-> {}, text |-> {"large language model"},
         reviews |-> << PraisedAsNovel, NoNoveltyWords >>,
         rating_avg |-> Some(120), confidence_avg |-> Some(10),
         decision |-> Some("Reject") ] >>

\* Sequences of at most MaxPapers papers, in the order of the data file
RECURSIVE SubListsFrom(_, _)
SubListsFrom(k, room) ==
    IF k > Len(PaperPool) \/ room = 0 THEN { <<>> }
    ELSE SubListsFrom(k + 1, room)
         \cup { << PaperPool[k] >> \o t : t \in SubListsFrom(k + 1, room - 1) }

SearchResults == SubListsFrom(1, MaxPapers)

\* ---- EvaluatePapersNode ----

\* The vocabulary's synonyms, as a well-behaved LLM lists them
SynonymTable(k) ==
    CASE k = "llm" -> {"large language model"}
      [] k = "graph" -> {"gnn"}
      [] OTHER -> {}

InterestKeys(research_interests) ==
    { Lower(research_interests[k]) : k \in 1..Len(research_interests) }

\* _generate_synonyms: "ok" when every per-keyword call returns a JSON
\* list, "keyword_failure" when the per-keyword calls fail (empty list for
\* the keyword), "unavailable" when the client cannot be created (empty
\* dict, nothing cached).
SynonymOutcomes == { "ok", "keyword_failure", "unavailable" }

GenerateSynonyms(research_interests, outcome) ==
    CASE outcome = "ok" ->
           [ k \in InterestKeys(research_interests) |-> SynonymTable(k) ]
      [] outcome = "keyword_failure" ->
           [ k \in InterestKeys(research_interests) |-> {} ]
      [] OTHER -> [ k \in {} |-> {} ]

\* The text match counted without the elif: also for a group that matched
\* the paper keywords
CalculateRelevanceScoreMutant(paper, criteria, synonyms) ==
    LET research_interests == criteria.research_interests
        num_groups == Len(research_interests)
        paper_keywords == { Lower(kw) : kw \in paper.keywords }
        group_keywords(k) ==
            LET interest_lower == Lower(research_interests[k])
            IN  {interest_lower}
                \cup (IF interest_lower \in DOMAIN synonyms
                      THEN { Lower(syn) : syn \in synonyms[interest_lower] }
                      ELSE {})
        has_keyword_match(k) == group_keywords(k) \cap paper_keywords # {}
        has_text_match(k) == group_keywords(k) \cap paper.text # {}
        matched_in_paper_keywords ==
            Cardinality({ k \in 1..num_groups : has_keyword_match(k) })
        matched_in_text_only ==
            Cardinality({ k \in 1..num_groups : has_text_match(k) })
        matched_groups == matched_in_paper_keywords + matched_in_text_only
        total_score ==
            matched_in_paper_keywords
                * (RELEVANCE_KEYWORD_WEIGHT \div num_groups)
            + matched_in_text_only * (RELEVANCE_TEXT_WEIGHT \div num_groups)
            + (matched_groups * RELEVANCE_COVERAGE_WEIGHT) \div num_groups
    IN  IF num_groups = 0 THEN S \div 2
        ELSE Min2(MAX_SCORE, total_score)

\* _calculate_relevance_score
CalculateRelevanceScore(paper, criteria, synonyms) ==
    LET research_interests == criteria.research_interests
        num_groups == Len(research_interests)
        paper_keywords == { Lower(kw) : kw \in paper.keywords }
        group_keywords(k) ==
            LET interest_lower == Lower(research_interests[k])
            IN  {interest_lower}
                \cup (IF interest_lower \in DOMAIN synonyms
                      THEN { Lower(syn) : syn \in synonyms[interest_lower] }
                      ELSE {})
        has_keyword_match(k) == group_keywords(k) \cap paper_keywords # {}
        has_text_match(k) == group_keywords(k) \cap paper.text # {}
        matched_in_paper_keywords ==
            Cardinality({ k \in 1..num_groups : has_keyword_match(k) })
        matched_in_text_only ==
            Cardinality({ k \in 1..num_groups :
                            ~has_keyword_match(k) /\ has_text_match(k) })
        matched_groups == matched_in_paper_keywords + matched_in_text_only
        total_score ==
            matched_in_paper_keywords
                * (RELEVANCE_KEYWORD_WEIGHT \div num_groups)
            + matched_in_text_only * (RELEVANCE_TEXT_WEIGHT \div num_groups)
            + (matched_groups * RELEVANCE_COVERAGE_WEIGHT) \div num_groups
    IN  IF num_groups = 0 THEN S \div 2
        ELSE Min2(MAX_SCORE, total_score)

\* rating_avg / NEURIPS_RATING_SCALE, the rating being in tenths
NormalizedRating(rating_avg) ==
    (rating_avg * S) \div (NEURIPS_RATING_SCALE * 10)

\* _estimate_novelty_from_reviews
RECURSIVE PositiveScore(_)
PositiveScore(reviews) ==
    IF reviews = <<>> THEN 0
    ELSE 2 * Head(reviews).pos_strengths + Head(reviews).pos_other
         + PositiveScore(Tail(reviews))

RECURSIVE NegativeScore(_)
NegativeScore(reviews) ==
    IF reviews = <<>> THEN 0
    ELSE 2 * Head(reviews).neg_weaknesses + Head(reviews).neg_other
         + NegativeScore(Tail(reviews))

EstimateNoveltyFromReviews(metadata, normalized_rating) ==
    LET positive_score == PositiveScore(metadata.reviews)
        negative_score == NegativeScore(metadata.reviews)
        keyword_score ==
            (positive_score * S) \div (positive_score + negative_score + 1)
    IN  IF metadata.reviews = <<>> THEN normalized_rating
        ELSE IF positive_score > 0 \/ negative_score > 0
        THEN Clamp((keyword_score + normalized_rating) \div 2)
        ELSE Clamp(normalized_rating)

\* "oral"/"spotlight", "accept", "reject" in decision.lower()
DecisionScore(decision) ==
    IF decision \in {"Accept (oral)", "Accept (spotlight)"} THEN S
    ELSE IF decision \in {"Accept (poster)", "Accept"} THEN 7000
    ELSE IF decision \in {"Reject"} THEN 2000
    ELSE 5000

\* _calculate_impact_score; metadata.get("decision", "").lower() raises
\* AttributeError when the decision is None
ImpactRaises(metadata) == IsNone(metadata.decision)

CalculateImpactScore(metadata, normalized_rating) ==
    LET decision_score == DecisionScore(Val(metadata.decision))
        confidence_score ==
            IF IsNone(metadata.confidence_avg)
               \/ Val(metadata.confidence_avg) = 0
            THEN S \div 2
            ELSE (Val(metadata.confidence_avg) * S) \div 50
    IN  Clamp((decision_score * 5 + normalized_rating * 3
               + confidence_score * 2) \div 10)

NoScores ==
    [ raised |-> FALSE, relevance |-> 0, novelty |-> 0, impact |-> 0,
      overall |-> 0 ]

\* _calculate_scores
CalculateScores(paper, metadata, criteria, synonyms, w) ==
    LET relevance_score == CalculateRelevanceScore(paper, criteria, synonyms)
    IN  IF IsNone(metadata.rating_avg)
        THEN [ raised |-> FALSE, relevance |-> relevance_score,
               novelty |-> S \div 2, impact |-> S \div 2,
               overall |-> (relevance_score * 7) \div 10 + (S * 3) \div 10 ]
        ELSE IF ImpactRaises(metadata)
        THEN [ NoScores EXCEPT !.raised = TRUE ]
        ELSE
          LET normalized_rating == NormalizedRating(Val(metadata.rating_avg))
              novelty_score ==
                  EstimateNoveltyFromReviews(metadata, normalized_rating)
              impact_score == CalculateImpactScore(metadata, normalized_rating)
              overall_score ==
                  (relevance_score * w.relevance_weight
                   + novelty_score * w.novelty_weight
                   + impact_score * w.impact_weight) \div W
          IN  [ raised |-> FALSE,
                relevance |-> Clamp(relevance_score),
                novelty |-> Clamp(novelty_score),
                impact |-> Clamp(impact_score),
                overall |-> Clamp(overall_score) ]

\* The evaluated paper built without the paper's decision
EvaluatedPaperMutant(paper, relevance, novelty, impact, overall, rationale) ==
    [ id |-> paper.id, keywords |-> paper.keywords, text |-> paper.text,
      reviews |-> paper.reviews, rating_avg |-> paper.rating_avg,
      confidence_avg |-> paper.confidence_avg, decision |-> None,
      relevance_score |-> relevance, novelty_score |-> novelty,
      impact_score |-> impact, practicality_score |-> None,
      overall_score |-> overall, evaluation_rationale |-> rationale,
      ai_rationale |-> None ]

\* EvaluatedPaper(**paper.model_dump(), ...): the Paper's own fields plus the
\* scores; every score defaults to None
EvaluatedPaper(paper, relevance, novelty, impact, overall, rationale) ==
    [ id |-> paper.id, keywords |-> paper.keywords, text |-> paper.text,
      reviews |-> paper.reviews, rating_avg |-> paper.rating_avg,
      confidence_avg |-> paper.confidence_avg, decision |-> paper.decision,
      relevance_score |-> relevance, novelty_score |-> novelty,
      impact_score |-> impact, practicality_score |-> None,
      overall_score |-> overall, evaluation_rationale |-> rationale,
      ai_rationale |-> None ]

\* What fetch_paper_metadata can hand to the node for a paper of the API
\* path: raised is an exception out of tool.invoke or json.loads, error the
\* {"error": ...} JSON of the tool.
NoMetadata ==
    [ raised |-> FALSE, error |-> FALSE, reviews |-> <<>>,
      rating_avg |-> None, confidence_avg |-> None,
      decision |-> Some("N/A") ]

MetadataOutcomes ==
    { [ NoMetadata EXCEPT !.error = TRUE ],
      [ NoMetadata EXCEPT !.raised = TRUE ],
      NoMetadata,
      [ NoMetadata EXCEPT !.reviews = << PraisedAsNovel >>,
                          !.rating_avg = Some(75),
                          !.confidence_avg = Some(40),
                          !.decision = Some("Accept (poster)") ] }

\* paper.reviews and paper.rating_avg is not None
HasCachedReviews(paper) ==
    paper.reviews # <<>> /\ ~IsNone(paper.rating_avg)

CachedMetadata(paper) ==
    [ raised |-> FALSE, error |-> FALSE, reviews |-> paper.reviews,
      rating_avg |-> paper.rating_avg,
      confidence_avg |-> paper.confidence_avg, decision |-> paper.decision ]

\* The except branch of the per-paper loop re-raising instead of recording
EvaluatePaperMutant(paper, fetched_meta, criteria, synonyms, w) ==
    LET metadata == IF HasCachedReviews(paper) THEN CachedMetadata(paper)
                    ELSE fetched_meta
        scores == CalculateScores(paper, metadata, criteria, synonyms, w)
    IN  IF metadata.raised \/ (~metadata.error /\ scores.raised)
        THEN [ raised |-> TRUE,
               paper |-> EvaluatedPaper(paper, None, None, None, Some(0),
                                        "evaluation_error") ]
        ELSE IF metadata.error
        THEN [ raised |-> FALSE,
               paper |-> EvaluatedPaper(paper, None, None, None, Some(0),
                                        "metadata_fetch_failed") ]
        ELSE [ raised |-> FALSE,
               paper |-> EvaluatedPaper(paper, Some(scores.relevance),
                            Some(scores.novelty), Some(scores.impact),
                            Some(scores.overall), "generated") ]

\* One iteration of the loop of EvaluatePapersNode.__call__.  The rationale
\* "metadata_fetch_failed" stands for "メタデータ取得失敗",
\* "evaluation_error" for "評価エラー: ...", "generated" for the text of
\* _generate_rationale.  raised tells whether an exception leaves the loop.
EvaluatePaper(paper, fetched_meta, criteria, synonyms, w) ==
    LET metadata == IF HasCachedReviews(paper) THEN CachedMetadata(paper)
                    ELSE fetched_meta
        scores == CalculateScores(paper, metadata, criteria, synonyms, w)
    IN  IF metadata.raised
        THEN [ raised |-> FALSE,
               paper |-> EvaluatedPaper(paper, None, None, None, Some(0),
                                        "evaluation_error") ]
        ELSE IF metadata.error
        THEN [ raised |-> FALSE,
               paper |-> EvaluatedPaper(paper, None, None, None, Some(0),
                                        "metadata_fetch_failed") ]
        ELSE IF scores.raised
        THEN [ raised |-> FALSE,
               paper |-> EvaluatedPaper(paper, None, None, None, Some(0),
                                        "evaluation_error") ]
        ELSE [ raised |-> FALSE,
               paper |-> EvaluatedPaper(paper, Some(scores.relevance),
                            Some(scores.novelty), Some(scores.impact),
                            Some(scores.overall), "generated") ]

\* ---- RankPapersNode ----

MeetsCriteriaMutant(paper, criteria) ==
    IF ~IsNone(paper.relevance_score)
       /\ Val(paper.relevance_score) <= criteria.min_relevance_score
    THEN FALSE
    ELSE IF ~IsNone(criteria.min_rating) /\ ~IsNone(paper.rating_avg)
            /\ Val(paper.rating_avg) < Val(criteria.min_rating)
    THEN FALSE
    ELSE TRUE

\* _meets_criteria
MeetsCriteria(paper, criteria) ==
    IF ~IsNone(paper.relevance_score)
       /\ Val(paper.relevance_score) < criteria.min_relevance_score
    THEN FALSE
    ELSE IF ~IsNone(criteria.min_rating) /\ ~IsNone(paper.rating_avg)
            /\ Val(paper.rating_avg) < Val(criteria.min_rating)
    THEN FALSE
    ELSE TRUE

\* seq[:n], the slice of Python: the first n entries, or all of them when
\* there are fewer; for a negative n, all but the last -n entries
SlicePrefix(seq, n) ==
    IF n >= 0 THEN SubSeq(seq, 1, Min2(n, Len(seq)))
    ELSE SubSeq(seq, 1, IF Len(seq) + n > 0 THEN Len(seq) + n ELSE 0)

\* [paper for paper in state.evaluated_papers if self._meets_criteria(...)]
FilterPapers(evaluated_papers, criteria) ==
    SelectSeq(evaluated_papers, LAMBDA paper : MeetsCriteria(paper, criteria))

\* An ascending sort followed by a reversal: equal scores end up in the
\* reverse of their input order
SortedByOverallMutant(seq) ==
    LET key(k) == OrElse(seq[k].overall_score, 0)
        place(k) == 1 + Cardinality({ j \in 1..Len(seq) :
                            \/ key(j) > key(k)
                            \/ key(j) = key(k) /\ j > k })
    IN  [ p \in 1..Len(seq) |->
            seq[CHOOSE k \in 1..Len(seq) : place(k) = p] ]

\* sorted(papers, key=lambda p: p.overall_score or 0.0, reverse=True): a
\* stable sort.  A paper comes after the papers of higher score and after
\* the papers of equal score that stood before it.
SortedByOverall(seq) ==
    LET key(k) == OrElse(seq[k].overall_score, 0)
        place(k) == 1 + Cardinality({ j \in 1..Len(seq) :
                            \/ key(j) > key(k)
                            \/ key(j) = key(k) /\ j < k })
    IN  [ p \in 1..Len(seq) |->
            seq[CHOOSE k \in 1..Len(seq) : place(k) = p] ]

\* Replies to the preliminary relevance prompt: the call raises, or the
\* text holds no number, or its first number (read by the pattern \d+\.?\d*)
NoNumber == [ raised |-> FALSE, number |-> None ]
PreliminaryOutcomes ==
    { [ NoNumber EXCEPT !.raised = TRUE ],
      NoNumber,
      [ NoNumber EXCEPT !.number = Some(2000) ],
      [ NoNumber EXCEPT !.number = Some(15000) ] }

\* _evaluate_relevance_with_llm
EvaluateRelevanceWithLLM(paper, reply) ==
    IF reply.raised \/ IsNone(reply.number)
    THEN OrElse(paper.relevance_score, S \div 2)
    ELSE Clamp(Val(reply.number))

\* body of the loop of _apply_preliminary_llm_filter
PreliminaryUpdate(paper, reply) ==
    LET llm_relevance == EvaluateRelevanceWithLLM(paper, reply)
        old_score == OrElse(paper.relevance_score, 0)
        score_diff == llm_relevance - old_score
    IN  [ paper EXCEPT
            !.relevance_score = Some(llm_relevance),
            !.overall_score = Some(OrElse(paper.overall_score, 0)
                                   + (score_diff * 4) \div 10) ]

\* _apply_preliminary_llm_filter
ApplyPreliminaryLLMFilter(ranked_papers, criteria, replies) ==
    LET filter_count == Min2(criteria.preliminary_llm_filter_count,
                             Len(ranked_papers))
        updated_papers == [ k \in 1..filter_count |->
                              PreliminaryUpdate(ranked_papers[k], replies[k]) ]
        remaining_papers ==
            SubSeq(ranked_papers, filter_count + 1, Len(ranked_papers))
    IN  SortedByOverall(updated_papers \o remaining_papers)

\* convert_papers_to_dict_list without its max_count
ConvertPapersToDictListMutant(paper_list, max_count) ==
    [ k \in 1..Len(paper_list) |->
        [ id |-> paper_list[k].id, rank |-> k,
          overall_score |-> paper_list[k].overall_score,
          relevance_score |-> paper_list[k].relevance_score,
          novelty_score |-> paper_list[k].novelty_score,
          impact_score |-> paper_list[k].impact_score,
          practicality_score |-> paper_list[k].practicality_score ] ]

\* convert_papers_to_dict_list: papers[:max_count] if max_count else papers,
\* each entry with rank = position in the list
ConvertPapersToDictList(paper_list, max_count) ==
    LET shown == IF max_count = 0 THEN Len(paper_list)
                 ELSE Min2(max_count, Len(paper_list))
    IN  [ k \in 1..shown |->
            [ id |-> paper_list[k].id, rank |-> k,
              overall_score |-> paper_list[k].overall_score,
              relevance_score |-> paper_list[k].relevance_score,
              novelty_score |-> paper_list[k].novelty_score,
              impact_score |-> paper_list[k].impact_score,
              practicality_score |-> paper_list[k].practicality_score ] ]

\* ---- UnifiedLLMEvaluatePapersNode ----

\* What llm.invoke can produce for one paper.  invoke_ok: the call returned;
\* json_ok: the text taken by the patterns is valid JSON; is_object: that
\* JSON is an object; numeric: float() accepts every score present; the
\* four scores are None when the key is missing; rationale: the key
\* "rationale" is present.
WellFormedResponse ==
    [ invoke_ok |-> TRUE, json_ok |-> TRUE, is_object |-> TRUE,
      numeric |-> TRUE, relevance |-> Some(9000), novelty |-> Some(6000),
      impact |-> Some(7000), practicality |-> Some(4000),
      rationale |-> TRUE ]

LLMResponses ==
    { WellFormedResponse,
      [ WellFormedResponse EXCEPT !.relevance = Some(15000),
            !.novelty = None, !.impact = Some(-2000), !.rationale = FALSE ],
      [ WellFormedResponse EXCEPT !.json_ok = FALSE ],
      [ WellFormedResponse EXCEPT !.is_object = FALSE ],
      [ WellFormedResponse EXCEPT !.numeric = FALSE ],
      [ WellFormedResponse EXCEPT !.invoke_ok = FALSE ] }

\* json.loads, evaluation.get or float() raising inside _parse_llm_response
ParseRaises(response) ==
    ~response.json_ok \/ ~response.is_object \/ ~response.numeric

\* what happened to a response: the call failed, the text could not be
\* parsed, or it was parsed
ResponseKind(response) ==
    IF ~response.invoke_ok THEN "call_failed"
    ELSE IF ParseRaises(response) THEN "malformed"
    ELSE "parsed"

\* evaluation.get(key, 0.5)
GetScore(o) == IF IsNone(o) THEN S \div 2 ELSE Val(o)

ParseLLMResponseMutant(response) ==
    IF ParseRaises(response)
    THEN [ relevance |-> 0, novelty |-> 0, impact |-> 0,
           practicality |-> 0, rationale |-> "parse_error" ]
    ELSE [ relevance |-> Clamp(GetScore(response.relevance)),
           novelty |-> Clamp(GetScore(response.novelty)),
           impact |-> Clamp(GetScore(response.impact)),
           practicality |-> Clamp(GetScore(response.practicality)),
           rationale |-> IF response.rationale THEN "llm_rationale"
                         ELSE "no_rationale" ]

\* _parse_llm_response.  The rationale "parse_error" stands for
\* "パースエラー: ...", "no_rationale" for "評価理由なし", "llm_rationale"
\* for the text the LLM gave.
ParseLLMResponse(response) ==
    IF ParseRaises(response)
    THEN [ relevance |-> S \div 2, novelty |-> S \div 2, impact |-> S \div 2,
           practicality |-> S \div 2, rationale |-> "parse_error" ]
    ELSE [ relevance |-> Clamp(GetScore(response.relevance)),
           novelty |-> Clamp(GetScore(response.novelty)),
           impact |-> Clamp(GetScore(response.impact)),
           practicality |-> Clamp(GetScore(response.practicality)),
           rationale |-> IF response.rationale THEN "llm_rationale"
                         ELSE "no_rationale" ]

\* One iteration of the loop of UnifiedLLMEvaluatePapersNode.__call__;
\* "llm_error" stands for "LLM評価エラー: ...".
UnifiedEvaluatePaper(paper, response) ==
    IF ~response.invoke_ok
    THEN [ raised |-> FALSE,
           paper |-> [ paper EXCEPT
               !.relevance_score = Some(S \div 2),
               !.novelty_score = Some(S \div 2),
               !.impact_score = Some(S \div 2),
               !.practicality_score = Some(S \div 2),
               !.overall_score = Some(S \div 2),
               !.ai_rationale = Some("llm_error") ] ]
    ELSE LET evaluation == ParseLLMResponse(response)
         IN  [ raised |-> FALSE,
               paper |-> [ paper EXCEPT
                   !.relevance_score = Some(evaluation.relevance),
                   !.novelty_score = Some(evaluation.novelty),
                   !.impact_score = Some(evaluation.impact),
                   !.practicality_score = Some(evaluation.practicality),
                   !.ai_rationale = Some(evaluation.rationale),
                   !.overall_score =
                       Some((evaluation.relevance * 40
                             + evaluation.novelty * 25
                             + evaluation.impact * 25
                             + evaluation.practicality * 10) \div 100) ] ]

\* ---- the graph state ----

DefaultEvaluationCriteria ==
    [ research_description |-> FALSE, research_interests |-> <<>>,
      min_relevance_score |-> S \div 2, min_rating |-> None,
      top_k_papers |-> None, enable_preliminary_llm_filter |-> FALSE,
      preliminary_llm_filter_count |-> 500 ]

\* PaperReviewAgentState with the defaults of its fields
InitialState(criteria) ==
    [ evaluation_criteria |-> criteria, papers |-> <<>>,
      evaluated_papers |-> <<>>, ranked_papers |-> <<>>,
      llm_evaluated_papers |-> <<>>, re_ranked_papers |-> <<>>,
      synonyms |-> [ k \in {} |-> {} ], error_messages |-> <<>>,
      paper_report |-> None, top_papers |-> <<>> ]

\* Every field of the update replacing the one of the state
MergeMutant(st, update) ==
    [ k \in DOMAIN st |->
        IF k \notin DOMAIN update THEN st[k] ELSE update[k] ]

\* How the graph applies a node's returned dict: the fields annotated with
\* operator.add are extended, every other field is replaced.
Merge(st, update) ==
    [ k \in DOMAIN st |->
        IF k \notin DOMAIN update THEN st[k]
        ELSE IF k \in {"evaluated_papers", "error_messages"}
        THEN st[k] \o update[k]
        ELSE update[k] ]

\* The criteria a run is started with
CriteriaPool ==
    { DefaultEvaluationCriteria,
      [ DefaultEvaluationCriteria EXCEPT
          !.research_description = TRUE, !.min_relevance_score = 0,
          !.min_rating = Some(90), !.top_k_papers = Some(1),
          !.enable_preliminary_llm_filter = TRUE ],
      [ DefaultEvaluationCriteria EXCEPT
          !.research_interests = << "LLM" >>, !.min_relevance_score = 2500,
          !.top_k_papers = Some(2), !.enable_preliminary_llm_filter = TRUE,
          !.preliminary_llm_filter_count = 1 ],
      [ DefaultEvaluationCriteria EXCEPT !.top_k_papers = Some(-1) ] }

\* The ScoringWeights given to the agent: the defaults, and weights that
\* leave relevance out; both pass __post_init__.
AgentWeights ==
    { DefaultScoringWeights,
      [ DefaultScoringWeights EXCEPT !.relevance_weight = 0,
            !.novelty_weight = 500, !.impact_weight = 500 ] }

\* Keyword lists the gather stage can obtain from the LLM; the empty list
\* is also what an LLM or parse failure yields
ExtractedKeywords == { <<>>, << "llm", "graph", "diffusion" >> }
AdditionalKeywords == { <<>>, << "graph" >> }

\* list(set(xs)): the elements of xs without duplicates, in any order
ListsOfSet(xs) ==
    LET elems == { xs[k] : k \in 1..Len(xs) }
        n == Cardinality(elems)
    IN  { seq \in [ 1..n -> elems ] :
            \A a, b \in 1..n : a # b => seq[a] # seq[b] }

\* ---- the nodes of the graph, in the order of its edges ----

PipelineInit ==
    /\ node = "idle"
    /\ weights = DefaultScoringWeights
    /\ state = InitialState(DefaultEvaluationCriteria)
    /\ synonyms_cache = None
    /\ filtered_papers = <<>>
    /\ sorted_papers = <<>>
    /\ stage_trace = <<>>
    /\ rank_steps = <<>>
    /\ llm_responses = <<>>
    /\ degraded = {}

\* create_graph(scoring_weights=w) and invoke_graph with the input state
StartRun(criteria, w) ==
    /\ UNCHANGED other_than_pipeline
    /\ node = "idle"
    /\ PostInit(w) = "constructed"
    /\ node' = "gather_interests"
    /\ weights' = w
    /\ state' = InitialState(criteria)
    /\ UNCHANGED << sorted_papers, stage_trace, rank_steps,
                    synonyms_cache, filtered_papers, llm_responses, degraded >>

\* GatherResearchInterestsNode.__call__; extracted is the result of
\* _extract_keywords, additional that of _ask_for_more_details
GatherResearchInterests(extracted, additional) ==
    /\ UNCHANGED other_than_pipeline
    /\ node = "gather_interests"
    /\ LET criteria == state.evaluation_criteria
           initial_keywords == IF criteria.research_description
                               THEN extracted
                               ELSE criteria.research_interests
       IN  /\ ~criteria.research_description => extracted = <<>>
           /\ Len(initial_keywords) >= min_keywords => additional = <<>>
           /\ \E all_keywords \in
                  IF Len(initial_keywords) < min_keywords
                  THEN ListsOfSet(initial_keywords \o additional)
                  ELSE { initial_keywords } :
                state' = Merge(state,
                    [ evaluation_criteria |->
                        [ criteria EXCEPT
                            !.research_interests = all_keywords ] ])
    /\ node' = "search_papers"
    /\ stage_trace' = Append(stage_trace, "gather_interests")
    /\ UNCHANGED << sorted_papers, rank_steps, weights, synonyms_cache,
                    filtered_papers, llm_responses,
                    degraded >>

\* SearchPapersNode.__call__; outcome is "error" when the tool returns
\* {"error": ...}, "raised" when the call or json.loads raises, "found"
\* when the tool returns the list found
SearchPapers(outcome, found) ==
    /\ UNCHANGED other_than_pipeline
    /\ node = "search_papers"
    /\ outcome # "found" => found = <<>>
    /\ state' =
         IF outcome = "error"
         THEN Merge(state,
                [ papers |-> <<>>,
                  error_messages |->
                      << [ text |-> "Error searching papers",
                           paper |-> None ] >> ])
         ELSE IF outcome = "raised"
         THEN Merge(state,
                [ papers |-> <<>>,
                  error_messages |->
                      << [ text |-> "Unexpected error in SearchPapersNode",
                           paper |-> None ] >> ])
         ELSE Merge(state, [ papers |-> found ])
    /\ node' = "evaluate_papers"
    /\ stage_trace' = Append(stage_trace, "search_papers")
    /\ UNCHANGED << sorted_papers, rank_steps, weights, synonyms_cache,
                    filtered_papers, llm_responses,
                    degraded >>

\* EvaluatePapersNode.__call__; metas[k] is what the metadata tool gives
\* for the k-th paper when the node asks for it
EvaluatePapers(synonym_outcome, metas) ==
    /\ UNCHANGED other_than_pipeline
    /\ node = "evaluate_papers"
    /\ LET criteria == state.evaluation_criteria
           research_interests == criteria.research_interests
           cached == ~IsNone(synonyms_cache)
           synonyms ==
               IF research_interests = <<>> THEN [ k \in {} |-> {} ]
               ELSE IF cached THEN Val(synonyms_cache)
               ELSE GenerateSynonyms(research_interests, synonym_outcome)
           outs == [ k \in 1..Len(state.papers) |->
                       EvaluatePaper(state.papers[k], metas[k], criteria,
                                     synonyms, weights) ]
           failed == { k \in 1..Len(state.papers) :
                         /\ ~HasCachedReviews(state.papers[k])
                         /\ (metas[k].error \/ metas[k].raised) }
       IN  /\ (research_interests = <<>> \/ cached) => synonym_outcome = "ok"
           /\ \A k \in 1..Len(state.papers) :
                 HasCachedReviews(state.papers[k]) => metas[k] = NoMetadata
           /\ synonyms_cache' =
                 IF research_interests # <<>> /\ ~cached
                    /\ synonym_outcome # "unavailable"
                 THEN Some(synonyms) ELSE synonyms_cache
           /\ degraded' = degraded \cup { state.papers[k].id : k \in failed }
           /\ IF \E k \in 1..Len(state.papers) : outs[k].raised
              THEN node' = "crashed" /\ state' = state
              ELSE /\ node' = "rank_papers"
                   /\ state' = Merge(state,
                        [ evaluated_papers |->
                            [ k \in 1..Len(state.papers) |-> outs[k].paper ],
                          synonyms |-> synonyms ])
    /\ stage_trace' = Append(stage_trace, "evaluate_papers")
    /\ UNCHANGED << sorted_papers, rank_steps, weights, filtered_papers,
                    llm_responses >>

\* The preliminary filter entered whenever it is enabled
RankStepsMutant(criteria, ranked) ==
    << "filter", "sort" >>
    \o (IF criteria.enable_preliminary_llm_filter
        THEN << "preliminary_refine" >> ELSE <<>>)
    \o (IF ~IsNone(criteria.top_k_papers)
        THEN << "select_top_k" >> ELSE << "select_all" >>)

\* The statements of RankPapersNode.__call__ in the order they run, ranked
\* being the sorted list: the two if statements decide the last steps
RankSteps(criteria, ranked) ==
    << "filter", "sort" >>
    \o (IF criteria.enable_preliminary_llm_filter /\ Len(ranked) > 0
        THEN << "preliminary_refine" >> ELSE <<>>)
    \o (IF ~IsNone(criteria.top_k_papers)
        THEN << "select_top_k" >> ELSE << "select_all" >>)

\* RankPapersNode.__call__; replies[k] is the LLM's reply to the k-th
\* preliminary relevance prompt.  The locals filtered, ranked,
\* ranked_papers and selected_papers take their values in this order.
RankPapers(replies) ==
    /\ UNCHANGED other_than_pipeline
    /\ node = "rank_papers"
    /\ \E filtered \in { FilterPapers(state.evaluated_papers,
                                       state.evaluation_criteria) } :
       \E ranked \in { SortedByOverall(filtered) } :
         LET criteria == state.evaluation_criteria
             prelim == criteria.enable_preliminary_llm_filter
                       /\ Len(ranked) > 0
             asked == IF prelim
                      THEN Min2(criteria.preliminary_llm_filter_count,
                                Len(ranked))
                      ELSE 0
         IN  /\ Len(replies) = asked
             /\ \E ranked_papers \in
                    { IF prelim
                      THEN ApplyPreliminaryLLMFilter(ranked, criteria,
                                                     replies)
                      ELSE ranked } :
                \E selected_papers \in
                    { IF ~IsNone(criteria.top_k_papers)
                      THEN SlicePrefix(ranked_papers,
                                       Val(criteria.top_k_papers))
                      ELSE ranked_papers } :
                  /\ filtered_papers' = filtered
                  /\ sorted_papers' = ranked_papers
                  /\ rank_steps' = RankSteps(criteria, ranked)
                  /\ state' = Merge(state,
                       [ ranked_papers |-> selected_papers,
                         top_papers |->
                             ConvertPapersToDictList(selected_papers,
                                 MAX_DISPLAY_PAPERS) ])
    /\ node' = "unified_llm_evaluate"
    /\ stage_trace' = Append(stage_trace, "rank_papers")
    /\ UNCHANGED << weights, synonyms_cache, llm_responses, degraded >>

\* UnifiedLLMEvaluatePapersNode.__call__; responses[k] is what llm.invoke
\* gives for the k-th ranked paper
UnifiedLLMEvaluate(responses) ==
    /\ UNCHANGED other_than_pipeline
    /\ node = "unified_llm_evaluate"
    /\ Len(responses) = Len(state.ranked_papers)
    /\ LET outs == [ k \in 1..Len(state.ranked_papers) |->
                       UnifiedEvaluatePaper(state.ranked_papers[k],
                                            responses[k]) ]
       IN  /\ llm_responses' = [ k \in 1..Len(responses) |->
                                    ResponseKind(responses[k]) ]
           /\ degraded' = degraded \cup
                 { state.ranked_papers[k].id :
                     k \in { j \in 1..Len(responses) :
                               ~responses[j].invoke_ok } }
           /\ IF \E k \in 1..Len(state.ranked_papers) : outs[k].raised
              THEN node' = "crashed" /\ state' = state
              ELSE /\ node' = "re_rank_papers"
                   /\ state' = Merge(state,
                        [ llm_evaluated_papers |->
                            [ k \in 1..Len(state.ranked_papers) |->
                                outs[k].paper ] ])
    /\ stage_trace' = Append(stage_trace, "unified_llm_evaluate")
    /\ UNCHANGED << sorted_papers, rank_steps, weights, synonyms_cache,
                    filtered_papers >>

\* ReRankPapersNode.__call__ with the default top_n
ReRankPapers ==
    /\ UNCHANGED other_than_pipeline
    /\ node = "re_rank_papers"
    /\ \E re_ranked_papers \in { SortedByOverall(state.llm_evaluated_papers) } :
           state' = Merge(state,
                [ re_ranked_papers |-> re_ranked_papers,
                  top_papers |-> ConvertPapersToDictList(re_ranked_papers,
                                     DEFAULT_TOP_N_PAPERS) ])
    /\ node' = "generate_report"
    /\ stage_trace' = Append(stage_trace, "re_rank_papers")
    /\ UNCHANGED << sorted_papers, rank_steps, weights, synonyms_cache,
                    filtered_papers, llm_responses,
                    degraded >>

\* GeneratePaperReportNode.__call__; the report lists the papers of
\* top_papers, or the first ranked papers when top_papers is empty
GenerateReport ==
    /\ UNCHANGED other_than_pipeline
    /\ node = "generate_report"
    /\ state' = Merge(state,
          [ paper_report |->
              Some([ k \in 1..Len(state.top_papers) |->
                       state.top_papers[k].id ]) ])
    /\ node' = "END"
    /\ stage_trace' = Append(stage_trace, "generate_report")
    /\ UNCHANGED << sorted_papers, rank_steps, weights, synonyms_cache,
                    filtered_papers, llm_responses,
                    degraded >>

\* Sequences of length n over a set
SeqsOfLen(n, set) == [ 1..n -> set ]

PipelineNext ==
    \/ \E criteria \in CriteriaPool, w \in AgentWeights :
          StartRun(criteria, w)
    \/ \E extracted \in ExtractedKeywords, additional \in AdditionalKeywords :
          GatherResearchInterests(extracted, additional)
    \/ \E outcome \in { "error", "raised", "found" },
          found \in SearchResults :
          SearchPapers(outcome, found)
    \/ \E synonym_outcome \in SynonymOutcomes,
          metas \in SeqsOfLen(Len(state.papers), MetadataOutcomes) :
          EvaluatePapers(synonym_outcome, metas)
    \/ \E n \in 0..Len(state.evaluated_papers) :
          \E replies \in SeqsOfLen(n, PreliminaryOutcomes) :
             RankPapers(replies)
    \/ \E responses \in
             SeqsOfLen(Len(state.ranked_papers), LLMResponses) :
          UnifiedLLMEvaluate(responses)
    \/ ReRankPapers
    \/ GenerateReport

----------------------------------------------------------------------------
(* Properties of the pipeline *)

PaperIds(seq) == { seq[k].id : k \in 1..Len(seq) }

\* the stage named has run
AfterRank == node \in { "unified_llm_evaluate", "re_rank_papers",
                        "generate_report", "END" }
AfterUnified == node \in { "re_rank_papers", "generate_report", "END" }

\* C5: in the final state, every paper whose metadata fetch or unified LLM
\* call failed is named by an entry of error_messages.
C5_DegradedAccounted ==
    node = "END" =>
        \A id \in degraded :
            \E k \in 1..Len(state.error_messages) :
                state.error_messages[k].paper = Some(id)

\* the ranked selection of the final state: one entry, in rank order, for
\* each paper that was selected for LLM scoring, up to the display count
SelectionComplete ==
    /\ Len(state.re_ranked_papers) = Len(state.ranked_papers)
    /\ PaperIds(state.re_ranked_papers) = PaperIds(state.ranked_papers)
    /\ Len(state.top_papers)
          = Min2(Len(state.ranked_papers), DEFAULT_TOP_N_PAPERS)
    /\ \A k \in 1..Len(state.top_papers) :
          /\ state.top_papers[k].id = state.re_ranked_papers[k].id
          /\ state.top_papers[k].rank = k
    /\ ~IsNone(state.paper_report)

InUnitInterval(o) == IsNone(o) \/ (MIN_SCORE <= Val(o) /\ Val(o) <= MAX_SCORE)

ScoresInUnitInterval(p) ==
    /\ InUnitInterval(p.relevance_score)
    /\ InUnitInterval(p.novelty_score)
    /\ InUnitInterval(p.impact_score)
    /\ InUnitInterval(p.practicality_score)
    /\ InUnitInterval(p.overall_score)

\* C7: after every stage, every known relevance, novelty, impact,
\* practicality and overall score of every paper in the state lies in
\* [0.0, 1.0].
C7_ScoresInUnitInterval ==
    \A list \in { state.evaluated_papers, state.ranked_papers,
                  state.llm_evaluated_papers, state.re_ranked_papers,
                  state.top_papers } :
        \A k \in 1..Len(list) : ScoresInUnitInterval(list[k])

\* C9: a paper whose unified LLM response cannot be parsed gets 0.5 on the
\* four axes and as its overall score, with the parse error recorded as its
\* rationale, and the stage still produces one entry per ranked paper.
C9_MalformedResponseNeutral ==
    AfterUnified =>
        /\ Len(state.llm_evaluated_papers) = Len(state.ranked_papers)
        /\ \A k \in 1..Len(state.ranked_papers) :
              /\ state.llm_evaluated_papers[k].id = state.ranked_papers[k].id
              /\ llm_responses[k] = "malformed" =>
                    LET p == state.llm_evaluated_papers[k]
                    IN  /\ p.relevance_score = Some(5000)
                        /\ p.novelty_score = Some(5000)
                        /\ p.impact_score = Some(5000)
                        /\ p.practicality_score = Some(5000)
                        /\ p.overall_score = Some(5000)
                        /\ p.ai_rationale = Some("parse_error")

C9_Witness ==
    /\ node = "re_rank_papers"
    /\ llm_responses = << "malformed", "parsed" >>
    /\ state.llm_evaluated_papers[1].overall_score = Some(5000)
    /\ state.llm_evaluated_papers[2].overall_score = Some(7250)

\* thresholds compared in C10
RelevanceThresholds == { 0, 2500, 3000, 5000, 5001, 8000, 10000 }

\* C10: the filter keeps exactly the papers whose relevance is unknown or
\* at least min_relevance_score and, when min_rating is set, whose rating
\* is unknown or at least min_rating; and for the same evaluated papers a
\* higher min_relevance_score never keeps more papers.
C10_AdmissionFilter ==
    AfterRank =>
        LET criteria == state.evaluation_criteria
            Keeps(p) ==
                /\ \/ IsNone(p.relevance_score)
                   \/ Val(p.relevance_score) >= criteria.min_relevance_score
                /\ \/ IsNone(criteria.min_rating)
                   \/ IsNone(p.rating_avg)
                   \/ Val(p.rating_avg) >= Val(criteria.min_rating)
            KeptAt(m) ==
                Len(FilterPapers(state.evaluated_papers,
                        [ criteria EXCEPT !.min_relevance_score = m ]))
        IN  /\ filtered_papers = SelectSeq(state.evaluated_papers, Keeps)
            /\ \A m1, m2 \in RelevanceThresholds :
                  m1 <= m2 => KeptAt(m2) <= KeptAt(m1)

C10_Witness ==
    /\ node = "unified_llm_evaluate"
    /\ Len(state.evaluated_papers) = 2
    /\ Len(filtered_papers) = 1
    /\ IsNone(filtered_papers[1].relevance_score)
    /\ \E k \in 1..2 :
          /\ ~IsNone(state.evaluated_papers[k].relevance_score)
          /\ Val(state.evaluated_papers[k].relevance_score)
                < state.evaluation_criteria.min_relevance_score

\* the aggregate the sorts compare: overall_score or 0.0
Aggregate(p) == OrElse(p.overall_score, 0)

NonIncreasing(seq) ==
    \A a, b \in 1..Len(seq) : a < b => Aggregate(seq[a]) >= Aggregate(seq[b])

\* C11: the list handed to LLM scoring is, when top_k_papers is set, the
\* first min(top_k_papers, n) entries of the sorted (and, with the
\* preliminary pass, refined and re-sorted) list of the n admitted papers,
\* so that no admitted paper left out has a higher aggregate than a
\* selected one; when top_k_papers is not set it is that whole list.
C11_TopKSelection ==
    AfterRank =>
        LET top_k == state.evaluation_criteria.top_k_papers
            n == Len(sorted_papers)
            selected == state.ranked_papers
        IN  /\ n = Len(filtered_papers)
            /\ PaperIds(sorted_papers) = PaperIds(filtered_papers)
            /\ NonIncreasing(sorted_papers)
            /\ IF IsNone(top_k)
               THEN selected = sorted_papers
               ELSE /\ Len(selected) = Min2(Val(top_k), n)
                    /\ \A k \in 1..Len(selected) :
                          selected[k] = sorted_papers[k]
                    /\ \A j \in (Len(selected) + 1)..n :
                          \A k \in 1..Len(selected) :
                             Aggregate(sorted_papers[j])
                                <= Aggregate(selected[k])

----------------------------------------------------------------------------
(* ReRankPapersNode on lists longer than the display count *)

\* An LLM-scored paper as the unified stage leaves it: id k, the four axis
\* scores set, overall as given
ScoredPaper(k, overall) ==
    [ id |-> k, rating_avg |-> None, relevance_score |-> Some(S \div 2),
      novelty_score |-> Some(S \div 2), impact_score |-> Some(S \div 2),
      practicality_score |-> Some(S \div 2), overall_score |-> overall,
      evaluation_rationale |-> "generated",
      ai_rationale |-> Some("llm_rationale") ]

\* Lists of n LLM-scored papers; the overall score of the k-th is
\* ((k * a + b) % m) / 20, and None where that residue is m - 1
ScoredList(n, a, b, m) ==
    [ k \in 1..n |->
        LET r == (k * a + b) % m
        IN  ScoredPaper(k, IF r = m - 1 THEN None ELSE Some(r * 500)) ]

ReRankInit ==
    /\ rr_input = <<>>
    /\ rr_update = None

\* ReRankPapersNode.__call__ with top_n = DEFAULT_TOP_N_PAPERS on a state
\* whose llm_evaluated_papers is llm_evaluated_papers; the graph calls the
\* node once in a run
ReRankNodeCall(llm_evaluated_papers) ==
    /\ UNCHANGED other_than_rerank
    /\ IsNone(rr_update)
    /\ rr_input' = llm_evaluated_papers
    /\ \E re_ranked_papers \in { SortedByOverall(llm_evaluated_papers) } :
          rr_update' = Some(
              [ re_ranked_papers |-> re_ranked_papers,
                top_papers |-> ConvertPapersToDictList(re_ranked_papers,
                                   DEFAULT_TOP_N_PAPERS) ])

ReRankNext ==
    \E n \in 0..MaxRanked, a \in {0, 1, 3, 7}, b \in {0, 1, 2}, m \in {5, 11} :
        ReRankNodeCall(ScoredList(n, a, b, m))

\* C12: after the re-rank stage top_papers lists at most the display count
\* (20) of the LLM-scored papers, in non-increasing order of their post-LLM
\* aggregate, and their ranks are 1, 2, ..., m in list order.
C12_FinalSelectionRanked ==
    ~IsNone(rr_update) =>
        LET top_papers == Val(rr_update).top_papers
            m == Len(top_papers)
        IN  /\ m <= DEFAULT_TOP_N_PAPERS
            /\ m = Min2(Len(rr_input), DEFAULT_TOP_N_PAPERS)
            /\ \A k \in 1..m : top_papers[k].rank = k
            /\ NonIncreasing(top_papers)
            /\ \A j, k \in 1..m : j # k => top_papers[j].id # top_papers[k].id
            /\ \A k \in 1..m :
                  \E j \in 1..Len(rr_input) :
                     /\ rr_input[j].id = top_papers[k].id
                     /\ rr_input[j].overall_score = top_papers[k].overall_score
            /\ \A j \in 1..Len(rr_input) :
                  rr_input[j].id \notin PaperIds(top_papers) =>
                     \A k \in 1..m :
                        Aggregate(rr_input[j]) <= Aggregate(top_papers[k])

C12_Witness ==
    /\ ~IsNone(rr_update)
    /\ Len(rr_input) > DEFAULT_TOP_N_PAPERS
    /\ Len(Val(rr_update).top_papers) = DEFAULT_TOP_N_PAPERS
    /\ Val(rr_update).top_papers[1].id # rr_input[1].id
    /\ Val(rr_update).top_papers[DEFAULT_TOP_N_PAPERS].rank
          = DEFAULT_TOP_N_PAPERS
    /\ \E k \in 1..Len(rr_input) : IsNone(rr_input[k].overall_score)

----------------------------------------------------------------------------
(* tools/cache_manager.py: CacheManager, and its use by search_papers *)

\* Text is a sequence of characters.  A payload as json.dumps(..., indent=2)
\* writes it, and one holding a carriage return before its line feed.
JsonText == << "[", "\n", "]" >>
CrLfText == << "[", "\r", "\n", "]" >>
Payloads == { JsonText, CrLfText }

\* os.linesep of the platform
linesep == << "\n" >>

\* Path.write_text(data): text mode with newline=None writes os.linesep for
\* every "\n"
RECURSIVE WriteText(_)
WriteText(data) ==
    IF data = <<>> THEN <<>>
    ELSE (IF Head(data) = "\n" THEN linesep ELSE << Head(data) >>)
         \o WriteText(Tail(data))

\* Path.read_text(): text mode with newline=None gives "\n" for every
\* "\r\n" and every remaining "\r" of the file
RECURSIVE ReadText(_)
ReadText(content) ==
    IF content = <<>> THEN <<>>
    ELSE IF Head(content) = "\r"
    THEN << "\n" >>
         \o ReadText(IF Len(content) >= 2 /\ content[2] = "\n"
                     THEN Tail(Tail(content)) ELSE Tail(content))
    ELSE << Head(content) >> \o ReadText(Tail(content))

\* Prefixes, as the list of their parts between "_": "search",
\* "search_papers" (the one search_papers uses) and "metadata"
Namespaces == { << "search" >>, << "search", "papers" >>, << "metadata" >> }

\* _generate_cache_key: the md5 digests of two different key parameters;
\* a digest holds no "_"
CacheKeys == { "k1", "k2" }

\* _get_cache_path: f"{prefix}_{cache_key}.json", or f"{cache_key}.json"
\* for an empty prefix; the name as the list of its parts between "_"
GetCachePath(cache_key, prefix) ==
    IF prefix = <<>> THEN << cache_key >> ELSE prefix \o << cache_key >>

CacheFileNames ==
    { GetCachePath(k, ns) : k \in CacheKeys, ns \in Namespaces }

\* cache_dir.glob(f"{prefix}_*.json"), or glob("*.json") for an empty
\* prefix: the names that begin with the prefix followed by "_"
GlobMatches(prefix, name) ==
    /\ Len(name) > Len(prefix)
    /\ SubSeq(name, 1, Len(prefix)) = prefix

NoResult == [ op |-> "none", raised |-> FALSE, text |-> None, count |-> 0 ]

CacheInit ==
    /\ cache_files = [ name \in CacheFileNames |-> None ]
    /\ cache_now = 0
    /\ cache_writes = 0
    /\ cache_result = NoResult

\* _is_cache_valid
IsCacheValid(files, now, cache_path) ==
    /\ ~IsNone(files[cache_path])
    /\ now - Val(files[cache_path]).mtime < ttl_hours

\* the value CacheManager.get returns
GetValue(files, now, prefix, cache_key) ==
    LET cache_path == GetCachePath(cache_key, prefix)
    IN  IF IsCacheValid(files, now, cache_path)
        THEN Some(ReadText(Val(files[cache_path]).content))
        ELSE None

\* the files after CacheManager.set
FilesAfterSet(files, now, data, prefix, cache_key) ==
    [ files EXCEPT ![GetCachePath(cache_key, prefix)] =
        Some([ content |-> WriteText(data), mtime |-> now,
               payload |-> data ]) ]

\* CacheManager.get
CacheGet(prefix, cache_key) ==
    /\ UNCHANGED other_than_cache
    /\ cache_result' =
          [ NoResult EXCEPT !.op = "get",
                !.text = GetValue(cache_files, cache_now, prefix, cache_key) ]
    /\ UNCHANGED << cache_files, cache_now, cache_writes >>

\* CacheManager.set; storage_error: write_text raises OSError before
\* anything is written
CacheSet(data, prefix, cache_key, storage_error) ==
    /\ UNCHANGED other_than_cache
    /\ cache_writes < MaxWrites
    /\ cache_writes' = cache_writes + 1
    /\ IF storage_error
       THEN /\ cache_result' = [ NoResult EXCEPT !.op = "set",
                                                 !.raised = TRUE ]
            /\ UNCHANGED cache_files
       ELSE /\ cache_result' = [ NoResult EXCEPT !.op = "set" ]
            /\ cache_files' = FilesAfterSet(cache_files, cache_now, data,
                                            prefix, cache_key)
    /\ UNCHANGED cache_now

\* CacheManager.clear
CacheClear(prefix) ==
    /\ UNCHANGED other_than_cache
    /\ LET matched == { name \in CacheFileNames :
                          /\ ~IsNone(cache_files[name])
                          /\ GlobMatches(prefix, name) }
       IN  /\ cache_files' = [ name \in CacheFileNames |->
                                 IF name \in matched THEN None
                                 ELSE cache_files[name] ]
           /\ cache_result' = [ NoResult EXCEPT !.op = "clear",
                                    !.count = Cardinality(matched) ]
    /\ UNCHANGED << cache_now, cache_writes >>

\* time passing between two calls
CacheTick ==
    /\ UNCHANGED other_than_cache
    /\ cache_now + TickHours <= MaxClock
    /\ cache_now' = cache_now + TickHours
    /\ UNCHANGED << cache_files, cache_writes, cache_result >>

\* json.dumps({"error": error_msg})
ErrorText == << "{", "error", "}" >>

\* search_papers when storage/papers_data holds no all_papers.json for the
\* venue and year.  cache_key stands for the digest of venue, year,
\* keywords and max_results; api_ok: the OpenReview calls return;
\* storage_error: the write of _cache_manager.set raises OSError.
SearchPapersTool(cache_key, api_ok, storage_error) ==
    /\ UNCHANGED other_than_cache
    /\ LET prefix == << "search", "papers" >>
           cached_result ==
               GetValue(cache_files, cache_now, prefix, cache_key)
           hit == ~IsNone(cached_result) /\ Val(cached_result) # <<>>
           fetched_result == JsonText
       IN  IF hit
           THEN /\ api_ok /\ ~storage_error
                /\ cache_result' = [ NoResult EXCEPT !.op = "search_papers",
                                         !.text = cached_result ]
                /\ UNCHANGED << cache_files, cache_writes >>
           ELSE IF ~api_ok
           THEN /\ ~storage_error
                /\ cache_result' = [ NoResult EXCEPT !.op = "search_papers",
                                         !.text = Some(ErrorText) ]
                /\ UNCHANGED << cache_files, cache_writes >>
           ELSE /\ cache_writes < MaxWrites
                /\ cache_writes' = cache_writes + 1
                /\ IF storage_error
                   THEN /\ cache_result' =
                              [ NoResult EXCEPT !.op = "search_papers",
                                    !.text = Some(ErrorText) ]
                        /\ UNCHANGED cache_files
                   ELSE /\ cache_result' =
                              [ NoResult EXCEPT !.op = "search_papers",
                                    !.text = Some(fetched_result) ]
                        /\ cache_files' =
                              FilesAfterSet(cache_files, cache_now,
                                            fetched_result,
                                            prefix, cache_key)
    /\ UNCHANGED cache_now

CacheNext ==
    \/ \E prefix \in Namespaces, cache_key \in CacheKeys :
          CacheGet(prefix, cache_key)
    \/ \E data \in Payloads, prefix \in Namespaces, cache_key \in CacheKeys,
          storage_error \in BOOLEAN :
          CacheSet(data, prefix, cache_key, storage_error)
    \/ \E prefix \in Namespaces \cup { <<>> } : CacheClear(prefix)
    \/ CacheTick
    \/ \E cache_key \in CacheKeys, api_ok \in BOOLEAN,
          storage_error \in BOOLEAN :
          SearchPapersTool(cache_key, api_ok, storage_error)

----------------------------------------------------------------------------
(* Properties of the cache *)

\* C13: get(namespace, key) returns the payload stored for that namespace
\* and key when the entry exists and less than ttl_hours have passed since
\* its last write, and None otherwise; a set for the key stores the new
\* payload and restarts its age.
C13_GetWithinTTL ==
    [][ \A prefix \in Namespaces, cache_key \in CacheKeys :
          LET name == GetCachePath(cache_key, prefix)
              entry == cache_files[name]
          IN  /\ CacheGet(prefix, cache_key) =>
                    cache_result'.text =
                        IF /\ ~IsNone(entry)
                           /\ cache_now - Val(entry).mtime < ttl_hours
                        THEN Some(Val(entry).payload)
                        ELSE None
              /\ \A data \in Payloads :
                    CacheSet(data, prefix, cache_key, FALSE) =>
                       /\ ~IsNone(cache_files'[name])
                       /\ Val(cache_files'[name]).payload = data
                       /\ Val(cache_files'[name]).mtime = cache_now'
      ]_vars

\* C14: when search_papers misses the cache, fetches the records and the
\* write to the cache raises a storage error, it still returns the fetched
\* list.
C14_WriteErrorDoesNotAbort ==
    [][ \A cache_key \in CacheKeys :
          ( /\ SearchPapersTool(cache_key, TRUE, TRUE)
            /\ IsNone(GetValue(cache_files, cache_now,
                               << "search", "papers" >>, cache_key)) )
          => cache_result'.text = Some(JsonText)
      ]_vars

\* C15: clear(namespace) deletes exactly the entries stored under that
\* namespace, leaves every other entry as it is and returns the number of
\* entries it deleted; clear() deletes every entry and returns their
\* number.
C15_ClearNamespace ==
    [][ \A prefix \in Namespaces \cup { <<>> } :
          CacheClear(prefix) =>
             LET present == { name \in CacheFileNames :
                                ~IsNone(cache_files[name]) }
                 stored_under ==
                     IF prefix = <<>> THEN present
                     ELSE present \cap { GetCachePath(k, prefix) :
                                           k \in CacheKeys }
             IN  /\ \A name \in CacheFileNames :
                       cache_files'[name] =
                           IF name \in stored_under THEN None
                           ELSE cache_files[name]
                 /\ cache_result'.count = Cardinality(stored_under)
      ]_vars

----------------------------------------------------------------------------
(* EvaluatePapersNode._generate_synonyms and its cache *)

\* The keyword lists the method is called with
InterestLists ==
    { << "LLM" >>, << "Graph" >>, << "LLM", "Graph" >>, << "Graph", "LLM" >> }

\* Position of a keyword in the order sorted() puts strings in
KeywordRank(x) ==
    CASE x = "Graph" -> 1
      [] x = "LLM" -> 2
      [] OTHER -> 3

SynonymsCacheKeyMutant(research_interests) == research_interests

\* ",".join(sorted(research_interests)), as the list of the joined parts
SynonymsCacheKey(research_interests) ==
    LET n == Len(research_interests)
        place(k) == 1 + Cardinality({ j \in 1..n :
                        \/ KeywordRank(research_interests[j])
                              < KeywordRank(research_interests[k])
                        \/ /\ KeywordRank(research_interests[j])
                                 = KeywordRank(research_interests[k])
                           /\ j < k })
    IN  [ p \in 1..n |->
            research_interests[CHOOSE k \in 1..n : place(k) = p] ]

SynonymsInit ==
    /\ sy_cache = [ k \in {} |-> {} ]
    /\ sy_client = "unknown"
    /\ sy_history = <<>>

\* _generate_synonyms(research_interests).  client_ok: ChatOpenAI(...) is
\* constructed without raising; outcome: what the per-keyword LLM calls
\* give when they are made, as in GenerateSynonyms.
GenerateSynonymsCall(research_interests, client_ok, outcome) ==
    /\ UNCHANGED other_than_syn
    /\ Len(sy_history) < MaxSynonymCalls
    /\ outcome \in { "ok", "keyword_failure" }
    /\ LET cache_key == SynonymsCacheKey(research_interests)
       IN  IF cache_key \in DOMAIN sy_cache
           THEN /\ client_ok = (sy_client # "unavailable")
                /\ outcome = "ok"
                /\ sy_history' = Append(sy_history,
                      [ research_interests |-> research_interests,
                        synonyms |-> sy_cache[cache_key],
                        llm_calls |-> 0 ])
                /\ UNCHANGED << sy_cache, sy_client >>
           ELSE /\ sy_client = "ok" => client_ok
                /\ sy_client = "unavailable" => ~client_ok
                /\ sy_client' = IF client_ok THEN "ok" ELSE "unavailable"
                /\ IF client_ok
                   THEN LET synonyms ==
                                GenerateSynonyms(research_interests, outcome)
                        IN  /\ sy_cache' =
                                  [ k \in DOMAIN sy_cache \cup { cache_key }
                                      |-> IF k = cache_key THEN synonyms
                                          ELSE sy_cache[k] ]
                            /\ sy_history' = Append(sy_history,
                                  [ research_interests |-> research_interests,
                                    synonyms |-> synonyms,
                                    llm_calls |-> Len(research_interests) ])
                   ELSE /\ outcome = "ok"
                        /\ sy_history' = Append(sy_history,
                              [ research_interests |-> research_interests,
                                synonyms |-> [ k \in {} |-> {} ],
                                llm_calls |-> 0 ])
                        /\ UNCHANGED sy_cache

SynonymsNext ==
    \E research_interests \in InterestLists, client_ok \in BOOLEAN,
       outcome \in SynonymOutcomes :
        GenerateSynonymsCall(research_interests, client_ok, outcome)

KeywordSet(research_interests) ==
    { research_interests[k] : k \in 1..Len(research_interests) }

----------------------------------------------------------------------------
(* Forced rebuild *)

\* C17: in a call with force=True the checkpoints found on disk are all
\* deleted before the record loop starts, no record is taken from a
\* checkpoint or from an earlier all_papers.json, and a detail fetch is
\* issued for every id of the submission list, in order.
C17_ForcedRebuild ==
    /\ [][ (force /\ pc = "resume" /\ pc' = "loop")
              => DOMAIN temp_files' = {} ]_vars
    /\ []( (force /\ pc \in { "loop", "final", "cleanup" }) =>
             /\ resume_from = 0
             /\ processed_ids = {}
             /\ \A n \in DOMAIN temp_files :
                   /\ n \in written
                   /\ temp_files[n].data = SubSeq(papers, 1, n)
             /\ fetched = SubSeq(Val(submissions), 1, i - 1)
             /\ Len(papers) = Len(fetched)
             /\ \A k \in 1..Len(papers) : papers[k].id = fetched[k]
             /\ pc \in { "final", "cleanup" } => fetched = Val(submissions) )
    /\ []( (force /\ result = "complete") =>
             /\ fetched = SubmissionList
             /\ papers_file = Some(papers) )

C17_Witness ==
    /\ force
    /\ pc = "loop"
    /\ ~IsNone(papers_file)
    /\ Len(Val(papers_file)) = NumSubmissions
    /\ Len(fetched) = CHECKPOINT_EVERY + 1
    /\ Len(papers) = Len(fetched)
    /\ DOMAIN temp_files = { CHECKPOINT_EVERY }

----------------------------------------------------------------------------
(* EvaluatePapersNode._calculate_relevance_score on its own *)

\* The research interests, paper keywords and terms of title + abstract
\* the method is called with
InterestWords == { "LLM", "Graph", "diffusion" }
RelevanceInterestLists ==
    UNION { SeqsOfLen(n, InterestWords) : n \in 1..MaxInterests }
PaperKeywordSets == SUBSET { "LLM", "gnn", "diffusion" }
PaperTextSets == SUBSET { "llm", "large language model", "gnn" }

RelevanceInit == rel_call = None

\* One call of _calculate_relevance_score(paper, criteria) with a non-empty
\* criteria.research_interests; outcome is what its call of
\* _generate_synonyms gives.
RelevanceCall(research_interests, keywords, text, outcome) ==
    /\ UNCHANGED other_than_rel
    /\ IsNone(rel_call)
    /\ LET paper == [ PaperPool[1] EXCEPT !.keywords = keywords,
                                          !.text = text ]
           criteria == [ DefaultEvaluationCriteria EXCEPT
                           !.research_interests = research_interests ]
           synonyms == GenerateSynonyms(research_interests, outcome)
       IN  rel_call' =
               Some([ research_interests |-> research_interests,
                      paper |-> paper,
                      synonyms |-> synonyms,
                      score |-> CalculateRelevanceScore(paper, criteria,
                                                        synonyms) ])

RelevanceNext ==
    /\ IsNone(rel_call)
    /\ \E research_interests \in RelevanceInterestLists,
          keywords \in PaperKeywordSets, text \in PaperTextSets,
          outcome \in SynonymOutcomes :
           RelevanceCall(research_interests, keywords, text, outcome)

\* The synonym group of the k-th interest of a call: the keyword and the
\* synonyms generated for it
SynonymGroup(call, k) ==
    LET keyword == Lower(call.research_interests[k])
    IN  { keyword } \cup (IF keyword \in DOMAIN call.synonyms
                          THEN call.synonyms[keyword] ELSE {})

GroupsInKeywords(call) ==
    { k \in 1..Len(call.research_interests) :
        \E term \in SynonymGroup(call, k) :
            \E kw \in call.paper.keywords : Lower(kw) = term }

GroupsInTextOnly(call) ==
    { k \in 1..Len(call.research_interests) :
        /\ k \notin GroupsInKeywords(call)
        /\ \E term \in SynonymGroup(call, k) : term \in call.paper.text }

\* C18: for N >= 1 research interests the relevance of a paper is
\* k*(0.70/N) + t*(0.20/N) + ((k+t)/N)*0.10 clamped to [0,1], k being the
\* number of synonym groups with a term in the paper's case-normalised
\* keywords and t the number of groups matching only in title + abstract;
\* one interest whose synonym is in the paper keywords and in neither
\* title nor abstract gives 0.80.
C18_RelevanceFormula ==
    ~IsNone(rel_call) =>
        LET call == Val(rel_call)
            N == Len(call.research_interests)
            k == Cardinality(GroupsInKeywords(call))
            t == Cardinality(GroupsInTextOnly(call))
        IN  /\ N >= 1
            /\ call.score =
                  Clamp(k * (RELEVANCE_KEYWORD_WEIGHT \div N)
                        + t * (RELEVANCE_TEXT_WEIGHT \div N)
                        + ((k + t) * RELEVANCE_COVERAGE_WEIGHT) \div N)
            /\ k + t <= N
            /\ ( /\ N = 1
                 /\ \E syn \in SynonymTable(Lower(call.research_interests[1])) :
                       /\ syn \in SynonymGroup(call, 1)
                       /\ syn \in call.paper.keywords
                 /\ SynonymGroup(call, 1) \cap call.paper.text = {} )
               => call.score = 8000

C18_Witness ==
    /\ ~IsNone(rel_call)
    /\ Val(rel_call).research_interests = << "Graph" >>
    /\ Val(rel_call).paper.keywords = { "gnn" }
    /\ Val(rel_call).paper.text = {}
    /\ Val(rel_call).synonyms["graph"] = { "gnn" }
    /\ Val(rel_call).score = 8000

----------------------------------------------------------------------------
(* Heuristic aggregate of a paper without review data *)

\* C19: under the default criteria the heuristic evaluation stage gives
\* every paper that has no rating and no reviews, neither in the record
\* the search returned nor from the metadata tool, the aggregate
\* relevance*0.7 + 0.3; no research interests being supplied the relevance
\* is 0.5 and the aggregate 0.65.
C19_UnratedPaperAggregate ==
    [][ \A synonym_outcome \in SynonymOutcomes,
           metas \in SeqsOfLen(Len(state.papers), MetadataOutcomes) :
          ( /\ node = "evaluate_papers"
            /\ state.evaluation_criteria = DefaultEvaluationCriteria
            /\ EvaluatePapers(synonym_outcome, metas) )
          => \A k \in 1..Len(state.papers) :
                ( /\ IsNone(state.papers[k].rating_avg)
                  /\ state.papers[k].reviews = <<>>
                  /\ IsNone(metas[k].rating_avg)
                  /\ metas[k].reviews = <<>> )
                => LET evaluated ==
                           state'.evaluated_papers[
                               Len(state.evaluated_papers) + k]
                   IN  /\ evaluated.id = state.papers[k].id
                       /\ evaluated.relevance_score = Some(S \div 2)
                       /\ evaluated.overall_score =
                             Some((Val(evaluated.relevance_score) * 7) \div 10
                                  + (S * 3) \div 10)
                       /\ evaluated.overall_score = Some(6500) ]_vars

----------------------------------------------------------------------------
(* Order of the stages of a run *)

\* The nodes of the graph along its edges, from the entry point to the
\* finish point
StageOrder ==
    << "gather_interests", "search_papers", "evaluate_papers", "rank_papers",
       "unified_llm_evaluate", "re_rank_papers", "generate_report" >>

StagesDone(n) == SubSeq(StageOrder, 1, n)

\* C20: the stages of a run execute one after another in the order gather
\* interests, search, heuristic evaluate, rank, unified LLM scoring,
\* re-rank, report: the stages that have returned are a prefix of that
\* order, the stage in progress is the next one, and a finished run has run
\* each stage exactly once.  Inside rank the steps are filter, sort, the
\* preliminary refinement only if it is enabled and the sorted set is
\* non-empty, then the top-K selection.
C20_StagesInFixedOrder ==
    /\ Len(stage_trace) <= Len(StageOrder)
    /\ stage_trace = StagesDone(Len(stage_trace))
    /\ node = "idle" => stage_trace = <<>>
    /\ node = "END" <=> stage_trace = StageOrder
    /\ node \notin { "idle", "END" } =>
          /\ Len(stage_trace) < Len(StageOrder)
          /\ node = StageOrder[Len(stage_trace) + 1]
    /\ Len(stage_trace) < 3 => state.evaluated_papers = <<>>
    /\ Len(stage_trace) < 4 =>
          /\ rank_steps = <<>>
          /\ state.ranked_papers = <<>>
    /\ Len(stage_trace) < 5 => state.llm_evaluated_papers = <<>>
    /\ Len(stage_trace) < 6 => state.re_ranked_papers = <<>>
    /\ Len(stage_trace) < 7 => IsNone(state.paper_report)
    /\ Len(stage_trace) >= 4 =>
          LET criteria == state.evaluation_criteria
              refined == criteria.enable_preliminary_llm_filter
                         /\ Len(sorted_papers) > 0
          IN  /\ Len(sorted_papers) = Len(filtered_papers)
              /\ SubSeq(rank_steps, 1, 2) = << "filter", "sort" >>
              /\ Len(rank_steps) = IF refined THEN 4 ELSE 3
              /\ refined <=> rank_steps[3] = "preliminary_refine"
              /\ rank_steps[Len(rank_steps)] =
                    IF IsNone(criteria.top_k_papers) THEN "select_all"
                    ELSE "select_top_k"

\* A finished run that went through the preliminary refinement
C20_Witness ==
    /\ node = "END"
    /\ stage_trace = StageOrder
    /\ rank_steps =
          << "filter", "sort", "preliminary_refine", "select_top_k" >>
    /\ Len(state.re_ranked_papers) = MaxPapers
    /\ ~IsNone(state.paper_report)

----------------------------------------------------------------------------
(* The merge of a partial update into the state, on its own *)

\* A state in which every stage has left something
FilledState ==
    [ InitialState(DefaultEvaluationCriteria) EXCEPT
        !.papers = << PaperPool[1], PaperPool[2] >>,
        !.evaluated_papers =
            << EvaluatedPaper(PaperPool[1], None, None, None, Some(0),
                              "metadata_fetch_failed") >>,
        !.ranked_papers =
            << EvaluatedPaper(PaperPool[2], Some(S), Some(S), Some(S),
                              Some(S), "generated") >>,
        !.synonyms = GenerateSynonyms(<< "LLM" >>, "ok"),
        !.error_messages = << "search failed" >>,
        !.paper_report = Some(<< 2 >>) ]

MergeStates == { InitialState(DefaultEvaluationCriteria), FilledState }

\* Values a node can return for the fields of the state
UpdateValues ==
    { [ evaluation_criteria |-> [ DefaultEvaluationCriteria EXCEPT
                                   !.research_interests = << "LLM" >> ],
        papers |-> << PaperPool[3] >>,
        evaluated_papers |->
            << EvaluatedPaper(PaperPool[3], Some(0), Some(S \div 2),
                              Some(S \div 2), Some(3000), "generated") >>,
        ranked_papers |-> <<>>,
        llm_evaluated_papers |->
            << EvaluatedPaper(PaperPool[3], Some(S), Some(S), Some(S),
                              Some(S), "generated") >>,
        re_ranked_papers |->
            << EvaluatedPaper(PaperPool[3], Some(S), Some(S), Some(S),
                              Some(S), "generated") >>,
        synonyms |-> GenerateSynonyms(<< "Graph" >>, "ok"),
        error_messages |-> << "evaluation failed" >>,
        paper_report |-> Some(<< 3 >>),
        top_papers |-> ConvertPapersToDictList(
            << EvaluatedPaper(PaperPool[3], Some(S), Some(S), Some(S),
                              Some(S), "generated") >>, MAX_DISPLAY_PAPERS) ],
      [ evaluation_criteria |-> DefaultEvaluationCriteria,
        papers |-> <<>>, evaluated_papers |-> <<>>, ranked_papers |-> <<>>,
        llm_evaluated_papers |-> <<>>, re_ranked_papers |-> <<>>,
        synonyms |-> [ k \in {} |-> {} ], error_messages |-> <<>>,
        paper_report |-> None, top_papers |-> <<>> ] }

MergeInit == mg_call = None

\* The graph merging the dict a node returned: named is the set of keys of
\* the dict, values their values
MergeCall(st, named, values) ==
    /\ UNCHANGED other_than_merge
    /\ IsNone(mg_call)
    /\ LET update == [ k \in named |-> values[k] ]
       IN  mg_call' = Some([ before |-> st, update |-> update,
                             after |-> Merge(st, update) ])

MergeNext ==
    /\ IsNone(mg_call)
    /\ \E st \in MergeStates, values \in UpdateValues :
         \E named \in SUBSET DOMAIN values :
            MergeCall(st, named, values)

\* C21: merging a partial update appends the update's error messages and
\* heuristic-evaluated papers to the lists of the state, replaces every
\* other field the update names, and leaves every field it does not name
\* unchanged.
C21_MergeDisciplines ==
    ~IsNone(mg_call) =>
        LET before == Val(mg_call).before
            update == Val(mg_call).update
            after == Val(mg_call).after
        IN  /\ DOMAIN after = DOMAIN before
            /\ \A k \in DOMAIN before :
                  after[k] =
                     IF k \notin DOMAIN update THEN before[k]
                     ELSE IF k \in { "error_messages", "evaluated_papers" }
                     THEN before[k] \o update[k]
                     ELSE update[k]

\* An update that names an accumulated and a replaced field, both filled
\* in the state before, and leaves other filled fields alone
C21_Witness ==
    /\ ~IsNone(mg_call)
    /\ Val(mg_call).before = FilledState
    /\ DOMAIN Val(mg_call).update =
          { "evaluated_papers", "error_messages", "ranked_papers",
            "synonyms" }
    /\ Len(Val(mg_call).after.evaluated_papers) = 2
    /\ Val(mg_call).after.error_messages =
          << "search failed", "evaluation failed" >>
    /\ Val(mg_call).after.ranked_papers = <<>>
    /\ Val(mg_call).after.papers = FilledState.papers

----------------------------------------------------------------------------
(* Checkpoints of the record loop *)

\* C22: an iteration of the record loop writes a checkpoint artifact
\* exactly when it appended a record and the accumulated list, records
\* loaded from a resumed checkpoint included, thereby reached a positive
\* multiple of 100; the artifact is tagged with that length and holds the
\* accumulated list of that moment, and no other artifact is touched.
C22_CheckpointEveryHundred ==
    [][ (pc = "loop" /\ pc' = "loop") =>
          LET n == Len(papers')
              appended == Len(papers') = Len(papers) + 1
          IN  /\ (written' # written) <=>
                    (appended /\ n > 0 /\ n % 100 = 0)
              /\ written' # written =>
                    /\ written' = written \cup { n }
                    /\ DOMAIN temp_files' = DOMAIN temp_files \cup { n }
                    /\ temp_files'[n] = [ ok |-> TRUE, data |-> papers' ]
                    /\ Len(temp_files'[n].data) = n
                    /\ \A m \in DOMAIN temp_files \ { n } :
                          temp_files'[m] = temp_files[m]
              /\ written' = written => temp_files' = temp_files
              /\ ~appended => papers' = papers ]_vars

\* A resumed call has just written its checkpoint of 200 records, 100 of
\* them loaded from the checkpoint it resumed from
C22_Witness ==
    /\ pc = "loop"
    /\ resume_from = CHECKPOINT_EVERY
    /\ Len(papers) = 2 * CHECKPOINT_EVERY
    /\ Len(fetched) = CHECKPOINT_EVERY
    /\ written = { 2 * CHECKPOINT_EVERY }
    /\ temp_files[2 * CHECKPOINT_EVERY] = [ ok |-> TRUE, data |-> papers ]

----------------------------------------------------------------------------
(* Final artifact and checkpoint cleanup *)

\* C23: a call that has completed the record loop writes the final artifact
\* with the whole accumulated list while every checkpoint is still in
\* place, deletes checkpoints only after that, and once it has returned no
\* checkpoint artifact remains.
C23_FinalBeforeCleanup ==
    /\ [][ (pc = "final" /\ pc' = "cleanup") =>
             /\ papers_file' = Some(papers)
             /\ Len(papers) = Len(Val(submissions))
             /\ temp_files' = temp_files ]_vars
    /\ [][ ( /\ pc \in { "loop", "final", "cleanup" }
             /\ \E n \in DOMAIN temp_files : n \notin DOMAIN temp_files' )
           => /\ pc = "cleanup"
              /\ papers_file = Some(papers)
              /\ papers_file' = papers_file ]_vars
    /\ []( Completed =>
             /\ DOMAIN temp_files = {}
             /\ papers_file = Some(papers) )

\* A completed call that had written two checkpoints and the final artifact
C23_Witness ==
    /\ Completed
    /\ written = { 0, CHECKPOINT_EVERY, 2 * CHECKPOINT_EVERY }
    /\ DOMAIN temp_files = {}
    /\ Len(Val(papers_file)) = NumSubmissions

----------------------------------------------------------------------------
(* Rate limit of the record loop *)

\* C24: every detail fetch of the record loop is immediately preceded by
\* one blocking delay of 1.2 s, so that two consecutive detail fetches are
\* at least 1.2 s apart, and a submission skipped as already processed
\* incurs neither the delay nor a fetch.
C24_DelayBeforeEachFetch ==
    /\ [][ (pc = "loop" /\ pc' = "loop" /\ i' = i + 1) =>
             LET id == Val(submissions)[i]
             IN  IF id \in processed_ids
                 THEN /\ loop_calls' = loop_calls
                      /\ fetched' = fetched
                 ELSE /\ fetched' = Append(fetched, id)
                      /\ Len(loop_calls') = Len(loop_calls) + 2
                      /\ SubSeq(loop_calls', 1, Len(loop_calls)) = loop_calls
                      /\ loop_calls'[Len(loop_calls) + 1] =
                            [ call |-> "sleep", arg |-> 12 ]
                      /\ loop_calls'[Len(loop_calls) + 2] =
                            [ call |-> "fetch", arg |-> id ] ]_vars
    /\ []( /\ Len(loop_calls) = 2 * Len(fetched)
           /\ Len(loop_calls) > 0 =>
                 /\ loop_calls[Len(loop_calls)].call = "fetch"
                 /\ loop_calls[Len(loop_calls) - 1].call = "sleep"
                 /\ loop_calls[Len(loop_calls) - 1].arg >= 12 )

\* A resumed call skipped the checkpointed submissions and has issued its
\* second detail fetch
C24_Witness ==
    /\ pc = "loop"
    /\ resume_from = CHECKPOINT_EVERY
    /\ i = CHECKPOINT_EVERY + 3
    /\ Len(fetched) = 2
    /\ loop_calls =
          << [ call |-> "sleep", arg |-> RATE_LIMIT_DELAY ],
             [ call |-> "fetch", arg |-> CHECKPOINT_EVERY + 1 ],
             [ call |-> "sleep", arg |-> RATE_LIMIT_DELAY ],
             [ call |-> "fetch", arg |-> CHECKPOINT_EVERY + 2 ] >>

----------------------------------------------------------------------------
(* The Sorted step *)

\* Position of the paper with identifier id in a list of papers with
\* pairwise distinct identifiers
PositionOf(seq, id) == CHOOSE k \in 1..Len(seq) : seq[k].id = id

\* C25: the Sorted step returns the papers it was given in non-increasing
\* order of their aggregate, an unknown aggregate counting as 0.0, papers
\* of equal aggregate in their input order, and sorting its output again
\* returns the same list.
C25_SortStableIdempotent ==
    ~IsNone(rr_update) =>
        LET sorted == Val(rr_update).re_ranked_papers
        IN  /\ Len(sorted) = Len(rr_input)
            /\ \A k \in 1..Len(rr_input) :
                  \E p \in 1..Len(sorted) : sorted[p] = rr_input[k]
            /\ \A p, q \in 1..Len(sorted) :
                  p < q =>
                    /\ Aggregate(sorted[p]) >= Aggregate(sorted[q])
                    /\ Aggregate(sorted[p]) = Aggregate(sorted[q]) =>
                          PositionOf(rr_input, sorted[p].id)
                             < PositionOf(rr_input, sorted[q].id)
            /\ SortedByOverall(sorted) = sorted

\* A list in which a paper without aggregate and a paper of aggregate 0.0
\* tie, given in an order the sort has to change
C25_Witness ==
    /\ ~IsNone(rr_update)
    /\ Len(rr_input) >= 5
    /\ Val(rr_update).re_ranked_papers # rr_input
    /\ \E p \in 1..(Len(rr_input) - 1) :
          LET sorted == Val(rr_update).re_ranked_papers
          IN  /\ IsNone(sorted[p].overall_score)
              /\ sorted[p + 1].overall_score = Some(0)
              /\ sorted[p].id < sorted[p + 1].id

----------------------------------------------------------------------------
(* Preliminary refinement *)

\* The sorted list the preliminary refinement of the coming rank stage
\* starts from
RefinementCandidates ==
    SortedByOverall(FilterPapers(state.evaluated_papers,
                                 state.evaluation_criteria))

PaperWithId(seq, id) == seq[PositionOf(seq, id)]

\* The reply sequences the preliminary relevance queries of a rank stage
\* can get
ReplySequences ==
    UNION { SeqsOfLen(n, PreliminaryOutcomes) :
              n \in 0..Len(state.evaluated_papers) }

\* C26: a paper whose preliminary LLM relevance query fails, or gets a
\* response without a number, leaves the refinement with the relevance
\* score and the aggregate it had before, whatever its prior relevance
\* (0.0 and unknown included).
C26_FailedQueryKeepsScores ==
    [][ \A replies \in ReplySequences :
          ( /\ node = "rank_papers"
            /\ RankPapers(replies) )
          => \A k \in 1..Len(replies) :
                (replies[k].raised \/ IsNone(replies[k].number)) =>
                   LET before == RefinementCandidates[k]
                       after == PaperWithId(sorted_papers', before.id)
                   IN  /\ after.relevance_score = before.relevance_score
                       /\ after.overall_score = before.overall_score ]_vars

C30_SelectedMeetRelevanceThreshold ==
    AfterRank =>
        \A k \in 1..Len(state.ranked_papers) :
            \/ IsNone(state.ranked_papers[k].relevance_score)
            \/ Val(state.ranked_papers[k].relevance_score)
                  >= state.evaluation_criteria.min_relevance_score

----------------------------------------------------------------------------
(* create_icml_files_from_checkpoint.py: the final artifact rebuilt from a
   checkpoint *)

\* the record counts of the checkpoints an interrupted fetch can leave behind
CheckpointCounts == { CHECKPOINT_EVERY * k : k \in 1..MaxCheckpoints }

\* json.dumps(papers) of the fetch loop at len(papers) = n: the first n
\* records of the listing
CheckpointRecords(n) == [ k \in 1..n |-> k ]

\* str(n): the decimal digits of n
RECURSIVE Decimal(_)
Decimal(n) ==
    IF n < 10 THEN << n >> ELSE Append(Decimal(n \div 10), n % 10)

\* The part of the name all_papers_temp_<n>.json that decides a comparison
\* of two such names, as code points: the digits of n and the "." after them
TempFileName(n) ==
    [ k \in 1..Len(Decimal(n)) |-> 48 + Decimal(n)[k] ] \o << 46 >>

\* a < b for two strings: the first differing code point decides, a proper
\* prefix is smaller
RECURSIVE StrLess(_, _)
StrLess(a, b) ==
    IF b = <<>> THEN FALSE
    ELSE IF a = <<>> THEN TRUE
    ELSE IF Head(a) # Head(b) THEN Head(a) < Head(b)
    ELSE StrLess(Tail(a), Tail(b))

\* sorted(data_dir.glob("all_papers_temp_*.json"))[-1]: the paths are
\* compared as strings
LastOfSortedGlob(found) ==
    CHOOSE n \in found :
        \A m \in found \ {n} : StrLess(TempFileName(m), TempFileName(n))

CheckpointInit == cp_call = None

\* One run of the script in a data directory that holds the checkpoints
\* of the record counts in found
CreateIcmlFiles(found) ==
    /\ IsNone(cp_call)
    /\ IF found = {}
       THEN cp_call' = Some([ found |-> found, exit |-> 1,
                              papers_file |-> None, metadata |-> None ])
       ELSE \E latest_temp_file \in { LastOfSortedGlob(found) } :
              LET loaded == CheckpointRecords(latest_temp_file)
              IN  cp_call' =
                    Some([ found |-> found, exit |-> 0,
                           papers_file |-> Some(loaded),
                           metadata |->
                             Some([ total_papers |-> Len(loaded),
                                    status |-> "partial",
                                    note |-> latest_temp_file ]) ])
    /\ UNCHANGED other_than_ckpt

CheckpointNext ==
    /\ IsNone(cp_call)
    /\ \E found \in SUBSET CheckpointCounts : CreateIcmlFiles(found)

\* C28: create_icml_files_from_checkpoint builds the final artifact from the
\* checkpoint with the greatest record count among those present (the
\* 1000-record checkpoint when a 900-record and a 1000-record checkpoint
\* both exist) and writes exactly that checkpoint's records
C28_BuildsFromGreatestCheckpoint ==
    (~IsNone(cp_call) /\ Val(cp_call).found # {}) =>
        \E greatest \in Val(cp_call).found :
            /\ \A n \in Val(cp_call).found : n <= greatest
            /\ Val(cp_call).papers_file = Some(CheckpointRecords(greatest))

\* the fields of Paper that a record carries
PaperFields(p) ==
    [ id |-> p.id, keywords |-> p.keywords, text |-> p.text,
      reviews |-> p.reviews, rating_avg |-> p.rating_avg,
      confidence_avg |-> p.confidence_avg, decision |-> p.decision ]

\* out holds one record per record of inp, in the order of inp, each with
\* the Paper fields of its input record
MapsOneToOne(out, inp) ==
    /\ Len(out) = Len(inp)
    /\ \A k \in 1..Len(inp) : PaperFields(out[k]) = PaperFields(inp[k])

AfterEvaluate == node \in { "rank_papers", "unified_llm_evaluate",
                            "re_rank_papers", "generate_report", "END" }
AfterReRank == node \in { "generate_report", "END" }

\* C29: heuristic evaluation emits one evaluated paper per fetched paper and
\* unified LLM scoring one per selected paper, in input order and with the
\* identifier and every Paper field unchanged, also for a paper whose
\* evaluation failed; the re-ranked list is a rearrangement of the selected
\* list.
C29_StagesMapOneToOne ==
    /\ AfterEvaluate => MapsOneToOne(state.evaluated_papers, state.papers)
    /\ AfterUnified =>
          MapsOneToOne(state.llm_evaluated_papers, state.ranked_papers)
    /\ AfterReRank =>
          /\ Len(state.re_ranked_papers) = Len(state.ranked_papers)
          /\ \E perm \in [ 1..Len(state.ranked_papers) ->
                           1..Len(state.ranked_papers) ] :
                /\ \A a, b \in 1..Len(state.ranked_papers) :
                      perm[a] = perm[b] => a = b
                /\ \A k \in 1..Len(state.ranked_papers) :
                      PaperFields(state.re_ranked_papers[perm[k]])
                        = PaperFields(state.ranked_papers[k])

\* a run has ended in which a metadata fetch and a unified LLM call failed,
\* and re-ranking moved a selected paper
C29_Witness ==
    /\ node = "END"
    /\ Len(state.ranked_papers) >= 2
    /\ \E k \in 1..Len(state.papers) :
          /\ state.papers[k].id \in degraded
          /\ state.evaluated_papers[k].evaluation_rationale
               = "metadata_fetch_failed"
    /\ \E k \in 1..Len(state.llm_evaluated_papers) :
          state.llm_evaluated_papers[k].ai_rationale = Some("llm_error")
    /\ \E k \in 1..Len(state.ranked_papers) :
          state.re_ranked_papers[k].id # state.ranked_papers[k].id

----------------------------------------------------------------------------
(* Specifications *)

\* runs of fetch_all_papers
Init ==
    /\ FetchInit
    /\ WeightsInit
    /\ PipelineInit
    /\ ReRankInit
    /\ CacheInit
    /\ SynonymsInit
    /\ RelevanceInit
    /\ MergeInit
    /\ CheckpointInit
Next == FetchNext
Spec == Init /\ [][Next]_vars

\* constructions of ScoringWeights
SpecWeights == Init /\ [][WeightsNext]_vars

\* runs of the pipeline graph
SpecPipeline == Init /\ [][PipelineNext]_vars

\* the graph runtime runs the next node whenever there is one
FairPipeline == SpecPipeline /\ WF_vars(PipelineNext)

\* ReRankPapersNode called on lists of up to MaxRanked papers
SpecReRank == Init /\ [][ReRankNext]_vars

\* CacheManager and search_papers called in any order as time passes
SpecCache == Init /\ [][CacheNext]_vars

\* One EvaluatePapersNode asked for synonyms MaxSynonymCalls times
SpecSynonyms == Init /\ [][SynonymsNext]_vars

\* _calculate_relevance_score called once on drawn arguments
SpecRelevance == Init /\ [][RelevanceNext]_vars

\* one partial update merged into a state
SpecMerge == Init /\ [][MergeNext]_vars

\* create_icml_files_from_checkpoint.py run once in a drawn data directory
SpecCheckpoint == Init /\ [][CheckpointNext]_vars

====
